---- MODULE Spec2Model ----
(***************************************************************************)
(* Model of the HH-4208SD thermocouple logger: the frame parser            *)
(* (src/parser.ts), the serial carry buffer, and the channel state store   *)
(* with its acquisition handlers (multi-datalogger index module and        *)
(* src/server.ts).                                                         *)
(*                                                                         *)
(* Representation.  A JavaScript string is a sequence of one-character     *)
(* strings; the byte 0x02 is written "STX" and the carriage return "\r".   *)
(* A temperature is kept in tenths of a degree (the code computes          *)
(* parseInt(digits) / 10, so ten times the temperature is the integer the  *)
(* model stores).  Times are whole seconds since the epoch; new Date(0) is *)
(* the time 0.                                                             *)
(***************************************************************************)
EXTENDS Integers, Sequences, FiniteSets, TLC

VARIABLES
  message,      \* parser: the frame handed to parseHH4208SDMessage
  parsed,       \* parser: the ParsedMessage it returned
  pstage,       \* parser: "input" before the call, "parsed" after it
  input,        \* feed: the whole byte string that arrives on the port
  pos,          \* feed: how many bytes of input have been fed so far
  carry,        \* feed: the buffer threaded through processSerialBuffer
  results,      \* feed: the ParsedMessages returned so far, in order
  handed,       \* feed: the segments handed to parseHH4208SDMessage so far
  midCut,       \* feed: a chunk has ended inside a segment (history)
  config,       \* store: the AppConfig in use (fixed at start-up)
  dataloggerPorts, \* store: datalogger id -> its carry buffer and descriptor
  channelData,  \* store: channel key -> ChannelData
  now,          \* store: the clock, in seconds
  events,       \* store: data events handled so far (bounds the run)
  received,     \* store: history, per key the valid readings that arrived for it
  rejected,     \* store: history, how many frames were parsed as errors so far
  activeDataloggers, \* supervisor: the ids of the dataloggers to connect to
  isCliOnly,    \* supervisor: CLI_ONLY=true, no web server is wanted
  appState,     \* supervisor: "initializing", "running" or "exited" (process.exit(1))
  serverStarted, \* supervisor: the server module has been imported
  portStatus,   \* supervisor: datalogger id -> what became of its serial port
  platform,     \* driver: os.platform()
  isConnected,  \* driver: this.isConnected
  reconnectAttempts, \* driver: this.reconnectAttempts
  process,      \* driver: the child process this.process refers to (status "null" for null)
  others,       \* driver: how many processes spawned earlier, no longer this.process,
                \* still run (MaxOthers stands for MaxOthers or more)
  calls,        \* driver: the open() calls, each with its promise (of a settled call
                \* only a pending timer is kept when the next call begins)
  listeners,    \* driver: the calls whose onOpen/onError are registered, in order
  lastSignal,   \* driver: the signal the last step emitted, "call" when the step was
                \* a call of open(), "close()" when it was a call of close(), "none"
                \* otherwise
  connectionHealthy, \* driver: this.connectionHealthy
  healthCheckInterval, \* driver: the 10 s interval of setupHealthMonitoring is set
  sinceData,    \* driver: Date.now() - this.lastDataTime, in ms (MaxSilence stands for
                \* MaxSilence or more)
  sinceCheck,   \* driver: ms since the health interval last fired (or was started)
  quiet,        \* driver: history, ms since the port was opened or a chunk of data
                \* last arrived from the process, whichever is later
  readable_,    \* driver: this.readable_: "null", or the state of the stream
                \* ("readable", "errored", "closed")
  signalled,    \* driver: history, the chunks surfaced as "data" signals, in order
  streamed,     \* driver: history, the chunks enqueued on a readable stream, in order
  writable_,    \* driver: this.writable_ is set
  writeBuffer,  \* driver: this.writeBuffer, the ids of the queued writes
  processingBuffer, \* driver: this.processingBuffer
  drainers,     \* driver: how many processWriteBuffer loops wait in their 1 ms delay
  writes,       \* driver: history, per write (by id) what became of it
  delivered,    \* driver: history, the ids written to a process's stdin, in order
  killTimers,   \* driver: how many 5 s timers of close() are pending
  closeReturned, \* driver: history, close() has returned and open() has not been
                \* called since
  testBuffer,   \* discovery: the buffer threaded through processSerialBuffer
  dataReceived, \* discovery: a "data" event has arrived
  discoveredChannels, \* discovery: channel code -> the entry stored for it
  allChannelsSeen, \* discovery: the channel codes of the valid messages so far
  testResult,   \* discovery: what became of the test's promise
  testChunks,   \* discovery: "data" events handled so far (bounds the run)
  observed,     \* discovery: history, the valid readings that arrived before the
                \* promise settled, in order
  testPort,     \* discovery: the port of the test: "opening", "open" or "closed"
  testElapsed,  \* discovery: time since the test started, in steps of the budget
  detectPorts,  \* detection: what SerialPort.list() returns
  scoredPorts,  \* detection: the scored ports, filtered and sorted
  validDataloggers, \* detection: the dataloggers found so far
  detectIndex,  \* detection: the position of the loop in candidatePorts
  detectState,  \* detection: "listing", "testing", "returned" or "failed"
  tested        \* detection: history, the live tests made, in order, with outcomes

parserVars == <<message, parsed, pstage>>
feedVars == <<input, pos, carry, results, handed, midCut>>
storeVars == <<config, dataloggerPorts, channelData, now, events, received, rejected>>
supVars == <<activeDataloggers, isCliOnly, appState, serverStarted, portStatus>>
driverVars ==
  <<platform, isConnected, reconnectAttempts, process, others, calls, listeners, lastSignal>>
healthVars == <<connectionHealthy, healthCheckInterval, sinceData, sinceCheck, quiet>>
streamVars == <<readable_, signalled, streamed>>
writeVars == <<writable_, writeBuffer, processingBuffer, drainers, writes, delivered>>
ioVars == <<healthVars, streamVars, writeVars, killTimers>>
discoveryVars ==
  <<testBuffer, dataReceived, discoveredChannels, allChannelsSeen, testResult,
    testChunks, observed, testPort, testElapsed>>
detectVars ==
  <<detectPorts, scoredPorts, validDataloggers, detectIndex, detectState, tested>>
vars ==
  <<message, parsed, pstage, input, pos, carry, results, handed, midCut,
    config, dataloggerPorts, channelData, now, events, received, rejected,
    activeDataloggers, isCliOnly, appState, serverStarted, portStatus,
    platform, isConnected, reconnectAttempts, process, others, calls, listeners,
    lastSignal, connectionHealthy, healthCheckInterval, sinceData, sinceCheck, quiet,
    readable_, signalled, streamed, writable_, writeBuffer, processingBuffer,
    drainers, writes, delivered, killTimers, closeReturned,
    testBuffer, dataReceived, discoveredChannels, allChannelsSeen, testResult,
    testChunks, observed, testPort, testElapsed,
    detectPorts, scoredPorts, validDataloggers, detectIndex, detectState, tested>>

\* Each specification below exercises one part of the program and leaves the
\* variables of the other parts at these values.
NoResult == [valid |-> FALSE, error |-> "not parsed yet"]
ParserIdle == message = <<>> /\ parsed = NoResult /\ pstage = "input"
FeedIdle ==
  /\ input = <<>> /\ pos = 0 /\ carry = <<>>
  /\ results = <<>> /\ handed = <<>> /\ midCut = FALSE
StoreIdle ==
  /\ config = <<>> /\ dataloggerPorts = <<>> /\ channelData = <<>>
  /\ now = 0 /\ events = 0 /\ received = <<>> /\ rejected = 0
SupervisorIdle ==
  /\ activeDataloggers = <<>> /\ isCliOnly = FALSE /\ appState = "initializing"
  /\ serverStarted = FALSE /\ portStatus = <<>>
\* private process: ChildProcess | null = null
NoProcess == [status |-> "null", killed |-> FALSE, said |-> FALSE]
\* The silence after which Date.now() - lastDataTime is no longer told apart
MaxSilence == 80000
\* The driver's streams, write buffer and health fields after construction:
\* lastDataTime = 0, connectionHealthy = true, and the health interval is running
IoIdle ==
  /\ connectionHealthy = TRUE /\ healthCheckInterval = TRUE
  /\ sinceData = MaxSilence /\ sinceCheck = 0 /\ quiet = MaxSilence
  /\ readable_ = "null" /\ signalled = <<>> /\ streamed = <<>>
  /\ writable_ = FALSE /\ writeBuffer = <<>> /\ processingBuffer = FALSE
  /\ drainers = 0 /\ writes = <<>> /\ delivered = <<>>
  /\ killTimers = 0 /\ closeReturned = FALSE
\* The locals of a discovery test when its promise is created
TestPending == [kind |-> "pending"]
DiscoveryIdle ==
  /\ testBuffer = <<>> /\ dataReceived = FALSE /\ discoveredChannels = <<>>
  /\ allChannelsSeen = {} /\ testResult = TestPending /\ testChunks = 0
  /\ observed = <<>>
  /\ testPort = "opening" /\ testElapsed = 0
DetectIdle ==
  /\ detectPorts = <<>> /\ scoredPorts = <<>> /\ validDataloggers = <<>>
  /\ detectIndex = 0 /\ detectState = "listing" /\ tested = <<>>
DriverIdle ==
  /\ platform = "linux" /\ isConnected = FALSE /\ reconnectAttempts = 0
  /\ process = NoProcess /\ others = 0 /\ calls = <<>> /\ listeners = <<>>
  /\ lastSignal = "none"
  /\ IoIdle

\* The variables outside each part, and their idle values
outsideParser ==
  <<feedVars, storeVars, supVars, driverVars, ioVars, closeReturned,
    discoveryVars, detectVars>>
outsideFeed ==
  <<parserVars, storeVars, supVars, driverVars, ioVars, closeReturned,
    discoveryVars, detectVars>>
outsideStore ==
  <<parserVars, feedVars, supVars, driverVars, ioVars, closeReturned,
    discoveryVars, detectVars>>
outsideSupervisor ==
  <<parserVars, feedVars, storeVars, driverVars, ioVars, closeReturned,
    discoveryVars, detectVars>>
outsideDriverState ==
  <<parserVars, feedVars, storeVars, supVars, discoveryVars, detectVars>>
outsideDriver == <<outsideDriverState, closeReturned>>
outsideDiscovery ==
  <<parserVars, feedVars, storeVars, supVars, driverVars, ioVars, closeReturned,
    detectVars>>
outsideDetect ==
  <<parserVars, feedVars, storeVars, supVars, driverVars, ioVars, closeReturned,
    discoveryVars>>
OutsideParserIdle ==
  FeedIdle /\ StoreIdle /\ SupervisorIdle /\ DriverIdle /\ DiscoveryIdle /\ DetectIdle
OutsideFeedIdle ==
  ParserIdle /\ StoreIdle /\ SupervisorIdle /\ DriverIdle /\ DiscoveryIdle /\ DetectIdle
OutsideStoreIdle ==
  ParserIdle /\ FeedIdle /\ SupervisorIdle /\ DriverIdle /\ DiscoveryIdle /\ DetectIdle
OutsideSupervisorIdle ==
  ParserIdle /\ FeedIdle /\ StoreIdle /\ DriverIdle /\ DiscoveryIdle /\ DetectIdle
OutsideDriverIdle ==
  ParserIdle /\ FeedIdle /\ StoreIdle /\ SupervisorIdle /\ DiscoveryIdle /\ DetectIdle
OutsideDiscoveryIdle ==
  ParserIdle /\ FeedIdle /\ StoreIdle /\ SupervisorIdle /\ DriverIdle /\ DetectIdle
OutsideDetectIdle ==
  ParserIdle /\ FeedIdle /\ StoreIdle /\ SupervisorIdle /\ DriverIdle /\ DiscoveryIdle

(***************************************************************************)
(* Characters and strings                                                  *)
(***************************************************************************)
STX == "STX"
CR == "\r"

Digits == {"0", "1", "2", "3", "4", "5", "6", "7", "8", "9"}

\* parseInt of one decimal digit character
DigitValue(c) ==
  CASE c = "0" -> 0 [] c = "1" -> 1 [] c = "2" -> 2 [] c = "3" -> 3
    [] c = "4" -> 4 [] c = "5" -> 5 [] c = "6" -> 6 [] c = "7" -> 7
    [] c = "8" -> 8 [] c = "9" -> 9

\* String.prototype.toUpperCase on one character of the model's alphabet
toUpperCaseChar(c) ==
  CASE c = "a" -> "A" [] c = "b" -> "B" [] c = "c" -> "C" [] c = "d" -> "D"
    [] c = "x" -> "X" [] OTHER -> c

toUpperCase(s) == [i \in 1..Len(s) |-> toUpperCaseChar(s[i])]

\* All sequences over S of length at most n
SeqsUpTo(S, n) == UNION {[1..k -> S] : k \in 0..n}

(***************************************************************************)
(* src/parser.ts                                                           *)
(***************************************************************************)
CHANNEL_MAP ==
  (<<"4", "1">> :> 1) @@ (<<"4", "2">> :> 2) @@ (<<"4", "3">> :> 3) @@
  (<<"4", "4">> :> 4) @@ (<<"4", "5">> :> 5) @@ (<<"4", "6">> :> 6) @@
  (<<"4", "7">> :> 7) @@ (<<"4", "8">> :> 8) @@ (<<"4", "9">> :> 9) @@
  (<<"4", "A">> :> 10) @@ (<<"4", "B">> :> 11) @@ (<<"4", "C">> :> 12)

VALID_CHANNEL_IDS == DOMAIN CHANNEL_MAP

isValidHH4208SDFormat(m) ==
  IF Len(m) < 3 THEN FALSE
  ELSE IF m[1] # STX THEN FALSE
  ELSE toUpperCase(SubSeq(m, 2, 3)) \in VALID_CHANNEL_IDS

\* (prefix + channel).toUpperCase()
MutChannelHexOf(prefix, channel) == <<prefix, channel>>
ChannelHexOf(prefix, channel) == toUpperCase(<<prefix, channel>>)

\* CHANNEL_MAP[channelHex]; 0 stands for undefined (both are falsy)
ChannelNumberOf(channelHex) ==
  IF channelHex \in DOMAIN CHANNEL_MAP THEN CHANNEL_MAP[channelHex] ELSE 0

\* remaining.replace(/[^\d]/g, '')
IsDigit(c) == c \in Digits
CleanRemaining(remaining) == SelectSeq(remaining, IsDigit)

\* cleanRemaining.match(/(\d{3})$/): the last three digits, <<>> for no match
MutTempMatch(clean) == IF Len(clean) < 3 THEN <<>> ELSE SubSeq(clean, 1, 3)
TempMatch(clean) ==
  IF Len(clean) < 3 THEN <<>> ELSE SubSeq(clean, Len(clean) - 2, Len(clean))

\* parseInt(tempRaw, 10) / 10, in tenths of a degree
MutParseTempRaw(tempRaw) ==
  10 * (100 * DigitValue(tempRaw[1]) + 10 * DigitValue(tempRaw[2])
          + DigitValue(tempRaw[3]))
ParseTempRaw(tempRaw) ==
  100 * DigitValue(tempRaw[1]) + 10 * DigitValue(tempRaw[2]) + DigitValue(tempRaw[3])

\* if (polarity === '1') temperature = -temperature
MutApplyPolarity(polarity, t) == IF polarity # "0" THEN 0 - t ELSE t
ApplyPolarity(polarity, t) == IF polarity = "1" THEN 0 - t ELSE t

UnitOf(tempUnit) ==
  IF tempUnit = <<"0", "1">> THEN "C"
  ELSE IF tempUnit = <<"0", "2">> THEN "F" ELSE "Unknown"

SignOf(polarity) == IF polarity = "0" THEN "+" ELSE "-"

\* isNaN(temperature) || temperature < -200 || temperature > 2000, in tenths
TemperatureRejected(t) == t < 0 - 2000 \/ t > 20000

\* parseInt(decimal, 10)
ParseDecimal(decimal) == IF decimal \in Digits THEN DigitValue(decimal) ELSE "NaN"

parseHH4208SDMessage(m) ==
  IF ~isValidHH4208SDFormat(m)
  THEN [valid |-> FALSE,
        error |-> IF Len(m) < 3 THEN "Message too short"
                  ELSE IF m[1] # STX THEN "Missing STX header"
                  ELSE "Invalid channel identifier"]
  ELSE
    LET data == SubSeq(m, 2, Len(m)) IN
    IF Len(data) < 6
    THEN [valid |-> FALSE, error |-> "Message too short: need at least 6"]
    ELSE
      LET prefix == data[1]
          channel == data[2]
          tempUnit == SubSeq(data, 3, 4)
          polarity == data[5]
          decimal == data[6]
          remaining == SubSeq(data, 7, Len(data))
          channelHex == ChannelHexOf(prefix, channel)
          channelNumber == ChannelNumberOf(channelHex)
      IN
      IF channelNumber = 0
      THEN [valid |-> FALSE, error |-> "Invalid channel"]
      ELSE
        LET cleanRemaining == CleanRemaining(remaining)
            tempRaw == TempMatch(cleanRemaining)
        IN
        IF tempRaw = <<>>
        THEN [valid |-> FALSE, channelHex |-> channelHex,
              channelNumber |-> channelNumber, sensorData |-> remaining,
              error |-> "No temperature digits found"]
        ELSE
          LET temperature == ApplyPolarity(polarity, ParseTempRaw(tempRaw)) IN
          IF TemperatureRejected(temperature)
          THEN [valid |-> FALSE, channelHex |-> channelHex,
                channelNumber |-> channelNumber, sensorData |-> remaining,
                error |-> "Invalid temperature value"]
          ELSE [valid |-> TRUE, channelHex |-> channelHex,
                channelNumber |-> channelNumber, temperature |-> temperature,
                temperatureUnit |-> UnitOf(tempUnit), polarity |-> SignOf(polarity),
                decimalPoint |-> ParseDecimal(decimal), sensorData |-> remaining]

\* buffer += newData
MutAppended(buffer, newData) == newData
Appended(buffer, newData) == buffer \o newData

\* String.prototype.split('\r'): the parts between carriage returns, at least one
RECURSIVE split(_)
split(s) ==
  IF \A i \in 1..Len(s) : s[i] # CR THEN <<s>>
  ELSE LET i == CHOOSE k \in 1..Len(s) : s[k] = CR /\ \A j \in 1..(k - 1) : s[j] # CR
       IN <<SubSeq(s, 1, i - 1)>> \o split(SubSeq(s, i + 1, Len(s)))

\* parts.pop() || '': the last part, which becomes the new buffer
MutNewBufferOf(all) == <<>>
NewBufferOf(all) == all[Len(all)]

\* for (const message of parts) if (message.length > 0) ...: the parts that are parsed
NonEmpty(part) == Len(part) > 0
MessagesToParse(parts) == SelectSeq(parts, NonEmpty)

\* The segments one call hands to parseHH4208SDMessage, in order
SegmentsParsed(buffer, newData) ==
  LET all == split(Appended(buffer, newData))
  IN MessagesToParse(SubSeq(all, 1, Len(all) - 1))

processSerialBuffer(buffer, newData) ==
  LET segments == SegmentsParsed(buffer, newData)
  IN [messages |-> [i \in 1..Len(segments) |-> parseHH4208SDMessage(segments[i])],
      buffer |-> NewBufferOf(split(Appended(buffer, newData)))]

(***************************************************************************)
(* Frames given to the parser                                              *)
(***************************************************************************)
MaxPayloadLen == 3

PayloadChars == {"0", "5", "9", "x"}

NamedPayloads ==
  { <<"0", "0", "5", "1", "2", "3">>, <<"0", "5", "1", "2", "3">>,
    <<"2", "0", "0", "0">>, <<"2", "0", "0", "0", "0">>,
    <<"2", "0", "0", "0", "1">>, <<"2", "0", "0", "1">>,
    <<"1", "x", "2", "x", "3">>, <<"1", "2">>, <<"0", "0", "0">> }

Payloads == SeqsUpTo(PayloadChars, MaxPayloadLen) \cup NamedPayloads

Frame(first, prefix, channel, unit, polarity, decimal, payload) ==
  <<first, prefix, channel>> \o unit \o <<polarity, decimal>> \o payload

HeaderFrames ==
  { Frame(first, prefix, channel, unit, polarity, decimal, payload) :
      first \in {STX, "x"}, prefix \in {"4", "5"},
      channel \in {"1", "2", "3", "4", "5", "6", "7", "8", "9",
                   "A", "B", "C", "a", "c", "D", "0"},
      unit \in {<<"0", "1">>, <<"0", "2">>, <<"0", "0">>},
      polarity \in {"0", "1", "2"}, decimal \in {"1", "x"},
      payload \in {<<"1", "2", "3">>, <<"1", "2">>} }

PayloadFrames ==
  { Frame(STX, "4", channel, <<"0", "1">>, polarity, decimal, payload) :
      channel \in {"1", "c"}, polarity \in {"0", "1", "2", "x"},
      decimal \in {"0", "1"}, payload \in Payloads }

TruncatedFrames ==
  { SubSeq(f, 1, n) :
      f \in {Frame(STX, "4", "1", <<"0", "1">>, "0", "1", <<"1", "2", "3">>)},
      n \in 0..9 }

FrameInputs == HeaderFrames \cup PayloadFrames \cup TruncatedFrames

InitParse ==
  /\ message \in FrameInputs
  /\ parsed = NoResult
  /\ pstage = "input"
  /\ OutsideParserIdle

ParseFrame ==
  /\ pstage = "input"
  /\ parsed' = parseHH4208SDMessage(message)
  /\ pstage' = "parsed"
  /\ UNCHANGED <<message, outsideParser>>

NextParse == ParseFrame

SpecParse == InitParse /\ [][NextParse]_vars

(***************************************************************************)
(* What the frame format says, stated on the raw frame (used by the        *)
(* properties below, not by the parser)                                    *)
(***************************************************************************)
MaxOf(S) == CHOOSE x \in S : \A y \in S : y <= x

\* The 12 channel codes 41..4C and the channel each one names ("4" + hex digit)
HexDigitOrder == <<"1", "2", "3", "4", "5", "6", "7", "8", "9", "A", "B", "C">>
RefChannelCodes == {<<"4", HexDigitOrder[i]>> : i \in 1..12}
RefChannelNumber(code) == CHOOSE i \in 1..12 : HexDigitOrder[i] = code[2]

\* Length >= 3, first byte 0x02, next two bytes (uppercased) a known code
RefStructureOK(m) ==
  /\ Len(m) >= 3
  /\ m[1] = STX
  /\ toUpperCase(SubSeq(m, 2, 3)) \in RefChannelCodes

\* Positions of the payload (after STX and the 6 header characters) holding a digit
PayloadDigitPositions(m) == {i \in 8..Len(m) : m[i] \in Digits}

\* Ten times the magnitude: the integer formed by the last three payload digits
RefMagnitude(m) ==
  LET P == PayloadDigitPositions(m)
      c == MaxOf(P)
      b == MaxOf(P \ {c})
      a == MaxOf(P \ {b, c})
  IN 100 * DigitValue(m[a]) + 10 * DigitValue(m[b]) + DigitValue(m[c])

RefAccepted(m) == RefStructureOK(m) /\ Cardinality(PayloadDigitPositions(m)) >= 3

ReadingFields ==
  {"valid", "channelHex", "channelNumber", "temperature", "temperatureUnit",
   "polarity", "decimalPoint", "sensorData"}

\* The round-trip frame of the specification: channel 41, Celsius, positive, 005123
ExampleFrame ==
  Frame(STX, "4", "1", <<"0", "1">>, "0", "0", <<"0", "5", "1", "2", "3">>)

\* C3: an accepted frame's temperature is the last three payload digits (non-digits
\* removed) divided by 10, negated when the polarity byte is "1"; a frame with fewer
\* than three payload digits is rejected; the example frame reads channel 1, 12.3.
C3_LastThreeDigits ==
  pstage = "parsed" =>
    /\ parsed.valid =>
         /\ Cardinality(PayloadDigitPositions(message)) >= 3
         /\ parsed.temperature =
              IF message[6] = "1" THEN 0 - RefMagnitude(message)
              ELSE RefMagnitude(message)
    /\ Cardinality(PayloadDigitPositions(message)) < 3 => ~parsed.valid
    /\ message = ExampleFrame =>
         parsed.valid /\ parsed.channelNumber = 1 /\ parsed.temperature = 123

\* C3 witness: a negative frame whose payload 1x2x3 holds garbage between the digits
C3_Witness ==
  /\ pstage = "parsed"
  /\ parsed.valid
  /\ message[6] = "1"
  /\ SubSeq(message, 8, Len(message)) = <<"1", "x", "2", "x", "3">>
  /\ parsed.temperature = 0 - 123

ValidShape(r) ==
  /\ DOMAIN r = ReadingFields
  /\ r.channelHex \in RefChannelCodes
  /\ r.channelNumber = RefChannelNumber(r.channelHex)
  /\ r.channelNumber \in 1..12
  /\ r.temperature \in Int
  /\ r.temperatureUnit \in {"C", "F", "Unknown"}

C5_OtherPolarityIsPositive ==
  (pstage = "parsed" /\ RefAccepted(message) /\ message[6] \notin {"0", "1"}) =>
    /\ parsed.valid
    /\ parsed.temperature = RefMagnitude(message)
    /\ parsed.polarity = "+"

\* A frame that encodes a temperature: sound structure, polarity 0 or 1, and a payload
\* of at least three digits and nothing else, read as tenths of a degree
RECURSIVE DecimalValue(_)
DecimalValue(ds) ==
  IF ds = <<>> THEN 0
  ELSE 10 * DecimalValue(SubSeq(ds, 1, Len(ds) - 1)) + DigitValue(ds[Len(ds)])

EncodesTemperature(m) ==
  /\ RefStructureOK(m)
  /\ Len(m) >= 10
  /\ m[6] \in {"0", "1"}
  /\ \A i \in 8..Len(m) : m[i] \in Digits

EncodedTemperature(m) ==
  IF m[6] = "1" THEN 0 - DecimalValue(SubSeq(m, 8, Len(m)))
  ELSE DecimalValue(SubSeq(m, 8, Len(m)))

\* C6 as claimed: a frame is accepted exactly when the temperature it encodes lies in
\* [-200.0, 2000.0]: 200.0, -200.0 and 2000.0 are accepted, 2000.1 and -200.1 rejected.
C6_AcceptsExactlyRange ==
  (pstage = "parsed" /\ EncodesTemperature(message)) =>
    (parsed.valid <=>
       (EncodedTemperature(message) >= 0 - 2000 /\ EncodedTemperature(message) <= 20000))


(***************************************************************************)
(* Feeding a byte string through processSerialBuffer in chunks             *)
(***************************************************************************)
MaxPieces == 3

ReadingFrame(channel, polarity, digits) ==
  Frame(STX, "4", channel, <<"0", "1">>, polarity, "1", digits)

FeedPieces ==
  { <<CR>>, <<"x">>,
    ReadingFrame("1", "0", <<"2", "3", "5">>) \o <<CR>>,
    <<STX, "4", "c", "0", "1", "1", "1">>,
    <<"0", "0", "7">> }

RECURSIVE Concat(_)
Concat(ps) == IF ps = <<>> THEN <<>> ELSE ps[1] \o Concat(Tail(ps))

FeedInputs == {Concat(ps) : ps \in SeqsUpTo(FeedPieces, MaxPieces)}

InitFeed ==
  /\ input \in FeedInputs
  /\ pos = 0
  /\ carry = <<>>
  /\ results = <<>>
  /\ handed = <<>>
  /\ midCut = FALSE
  /\ OutsideFeedIdle

\* The next chunk of n bytes arrives and is fed with the carried buffer
FeedChunk ==
  \E n \in 0..(Len(input) - pos) :
    LET chunk == SubSeq(input, pos + 1, pos + n)
        result == processSerialBuffer(carry, chunk)
    IN /\ carry' = result.buffer
       /\ results' = results \o result.messages
       /\ handed' = handed \o SegmentsParsed(carry, chunk)
       /\ pos' = pos + n
       /\ midCut' = (midCut \/ result.buffer # <<>>)
       /\ UNCHANGED <<input, outsideFeed>>

NextFeed == FeedChunk

SpecFeed == InitFeed /\ [][NextFeed]_vars

\* What has been fed so far
Fed == SubSeq(input, 1, pos)

\* C1: however the byte string is cut into chunks, the parsed results and the carry
\* after the chunks fed so far are those of feeding the same bytes in a single call.
C1_ChunkingInvariant ==
  /\ results = processSerialBuffer(<<>>, Fed).messages
  /\ carry = processSerialBuffer(<<>>, Fed).buffer

\* C1 witness: the input is one terminated frame, a chunk ended inside it, and the
\* frame was still parsed as the valid reading 23.5 once the rest had arrived
C1_Witness ==
  /\ pos = Len(input)
  /\ input = ReadingFrame("1", "0", <<"2", "3", "5">>) \o <<CR>>
  /\ midCut
  /\ Len(results) = 1
  /\ results[1].valid
  /\ results[1].temperature = 235

\* The carriage returns of s, the segments they terminate, and the unterminated tail
CRPositions(s) == {i \in 1..Len(s) : s[i] = CR}
NthCR(s, k) ==
  IF k = 0 THEN 0
  ELSE CHOOSE i \in CRPositions(s) : Cardinality({j \in CRPositions(s) : j < i}) = k - 1
RefCompleteSegments(s) ==
  [k \in 1..Cardinality(CRPositions(s)) |->
     SubSeq(s, NthCR(s, k - 1) + 1, NthCR(s, k) - 1)]
RefTrailing(s) == SubSeq(s, NthCR(s, Cardinality(CRPositions(s))) + 1, Len(s))
WithoutCR(s) == SelectSeq(s, LAMBDA c : c # CR)

\* C2 as claimed: every complete \r-terminated segment is handed to the parser, in
\* order and exactly once; the carry is the unterminated tail and holds no \r; no
\* byte other than the terminator is dropped.
C2_EverySegmentParsed ==
  /\ handed = RefCompleteSegments(Fed)
  /\ carry = RefTrailing(Fed)
  /\ \A i \in 1..Len(carry) : carry[i] # CR
  /\ Concat(handed) \o carry = WithoutCR(Fed)

\* C2 amended: every non-empty complete \r-terminated segment is handed to the parser,
\* in order and exactly once (an empty segment is skipped); the carry is the
\* unterminated tail and holds no \r; no byte other than the terminator is dropped.
C2_EveryNonEmptySegmentParsed ==
  /\ handed = SelectSeq(RefCompleteSegments(Fed), LAMBDA seg : seg # <<>>)
  /\ Len(results) = Len(handed)
  /\ \A i \in 1..Len(handed) : results[i] = parseHH4208SDMessage(handed[i])
  /\ carry = RefTrailing(Fed)
  /\ \A i \in 1..Len(carry) : carry[i] # CR
  /\ Concat(handed) \o carry = WithoutCR(Fed)

\* C2 witness: a chunk ended inside a segment, two segments were parsed and a non-empty
\* unterminated tail is carried
C2_Witness ==
  /\ midCut
  /\ Len(handed) = 2
  /\ carry # <<>>
  /\ pos = Len(input)

(***************************************************************************)
(* The channel state store and the acquisition handlers                    *)
(* (multi-datalogger index module, src/unnamed/part_002; src/server.ts)    *)
(***************************************************************************)

\* createChannelKey: `${dataloggerID}:${channelHex}`.  A datalogger id is kept as one
\* token of the key string; the channel code is its last two characters.
createChannelKey(dataloggerID, channelHex) == <<dataloggerID, ":">> \o channelHex

\* Object.keys(channelMap).find((key) => channelMap[key] === tc.channel);
\* <<>> stands for undefined
HexOfChannel(channel) ==
  IF \E key \in DOMAIN CHANNEL_MAP : CHANNEL_MAP[key] = channel
  THEN CHOOSE key \in DOMAIN CHANNEL_MAP : CHANNEL_MAP[key] = channel
  ELSE <<>>

\* The ChannelData record written at start-up for a configured thermocouple
PrePopulatedEntry(tc, datalogger, t) ==
  [temperature |-> 0, lastUpdate |-> 0, config |-> tc, detected |-> FALSE,
   firstSeen |-> t, dataCount |-> 0,
   dataloggerID |-> datalogger.id, dataloggerName |-> datalogger.name]

\* channelData[key] = value
SetKey(cd, key, value) ==
  [k \in DOMAIN cd \cup {key} |-> IF k = key THEN value ELSE cd[k]]

\* for (const tc of datalogger.thermocouples) { ... channelData[channelKey] = {...} }
RECURSIVE PrePopulateThermocouples(_, _, _, _)
PrePopulateThermocouples(cd, tcs, datalogger, t) ==
  IF tcs = <<>> THEN cd
  ELSE LET tc == Head(tcs)
           channelHex == HexOfChannel(tc.channel)
           cd1 == IF channelHex # <<>>
                  THEN SetKey(cd, createChannelKey(datalogger.id, channelHex),
                              PrePopulatedEntry(tc, datalogger, t))
                  ELSE cd
       IN PrePopulateThermocouples(cd1, Tail(tcs), datalogger, t)

\* for (const datalogger of activeDataloggers) { ... }
RECURSIVE PrePopulate(_, _, _)
PrePopulate(cd, dataloggers, t) ==
  IF dataloggers = <<>> THEN cd
  ELSE PrePopulate(
         PrePopulateThermocouples(cd, Head(dataloggers).thermocouples, Head(dataloggers), t),
         Tail(dataloggers), t)

\* initializeDataloggers: dataloggerPorts.set(datalogger.id, {port, buffer: "", config})
RECURSIVE InitialPorts(_, _)
InitialPorts(ports, dataloggers) ==
  IF dataloggers = <<>> THEN ports
  ELSE InitialPorts(
         SetKey(ports, Head(dataloggers).id, [buffer |-> <<>>, config |-> Head(dataloggers)]),
         Tail(dataloggers))

\* parseInt(str, 10) of a string of decimal digits
RECURSIVE parseInt10(_)
parseInt10(ds) ==
  IF ds = <<>> THEN 0
  ELSE 10 * parseInt10(SubSeq(ds, 1, Len(ds) - 1)) + DigitValue(ds[Len(ds)])

\* `${n}` for a number n >= 0
DigitChars == <<"0", "1", "2", "3", "4", "5", "6", "7", "8", "9">>
RECURSIVE NumberToString(_)
NumberToString(n) ==
  IF n < 10 THEN <<DigitChars[n + 1]>>
  ELSE NumberToString(n \div 10) \o <<DigitChars[(n % 10) + 1]>>

\* The run of digits of s that starts at position i (the greedy \d+)
RECURSIVE DigitRun(_, _)
DigitRun(s, i) ==
  IF i > Len(s) \/ s[i] \notin Digits THEN <<>> ELSE <<s[i]>> \o DigitRun(s, i + 1)

\* s.match(/<literal>(\d+)/): the digits captured by the first match, <<>> for none
MatchDigitsAfter(s, literal) ==
  LET n == Len(literal)
      hits == {i \in 1..Len(s) :
                 /\ i + n <= Len(s)
                 /\ SubSeq(s, i, i + n - 1) = literal
                 /\ s[i + n] \in Digits}
  IN IF hits = {} THEN <<>>
     ELSE DigitRun(s, n + (CHOOSE i \in hits : \A j \in hits : i <= j))

extractDataloggerNumber(dataloggerName) ==
  LET match == MatchDigitsAfter(dataloggerName,
                 <<"D", "a", "t", "a", "l", "o", "g", "g", "e", "r", " ">>)
      dMatch == MatchDigitsAfter(dataloggerName, <<"D">>)
      numMatch == MatchDigitsAfter(dataloggerName, <<>>)
  IN IF match # <<>> THEN match
     ELSE IF dMatch # <<>> THEN dMatch
     ELSE IF numMatch # <<>> THEN numMatch
     ELSE <<"1">>

\* `D${dataloggerNum}-T${channelNum}`
createThermocoupleDefaultName(dataloggerNum, channelNum) ==
  <<"D">> \o NumberToString(dataloggerNum) \o <<"-", "T">> \o NumberToString(channelNum)

\* config.globalSettings?.defaultThermocoupleType || "K"
MutDefaultThermocoupleType(cfg) == "K"
DefaultThermocoupleType(cfg) ==
  IF /\ "globalSettings" \in DOMAIN cfg
     /\ "defaultThermocoupleType" \in DOMAIN cfg.globalSettings
     /\ cfg.globalSettings.defaultThermocoupleType # ""
  THEN cfg.globalSettings.defaultThermocoupleType
  ELSE "K"

\* dataloggerInfo.config.thermocouples.find((tc) => tc.channel === channelNum);
\* <<>> stands for undefined
FindThermocouple(tcs, channelNum) ==
  IF \E i \in 1..Len(tcs) : tcs[i].channel = channelNum
  THEN tcs[CHOOSE i \in 1..Len(tcs) :
             /\ tcs[i].channel = channelNum
             /\ \A j \in 1..(i - 1) : tcs[j].channel # channelNum]
  ELSE <<>>

\* The entry processValidMessage creates for a key it has not seen
NewEntry(cfg, dataloggerInfo, dataloggerID, channelNum, t) ==
  LET dataloggerNum == parseInt10(extractDataloggerNumber(dataloggerInfo.config.name))
      defaultConfig == [name |-> createThermocoupleDefaultName(dataloggerNum, channelNum),
                        type |-> DefaultThermocoupleType(cfg),
                        channel |-> channelNum]
      userConfig == FindThermocouple(dataloggerInfo.config.thermocouples, channelNum)
      finalConfig == IF userConfig # <<>> THEN userConfig ELSE defaultConfig
  IN [temperature |-> 0, lastUpdate |-> 0, config |-> finalConfig, detected |-> TRUE,
      firstSeen |-> t, dataCount |-> 0,
      dataloggerID |-> dataloggerID, dataloggerName |-> dataloggerInfo.config.name]

\* if (!channelData[channelKey]) { ... }
MutNeedsEntry(cd, channelKey) == TRUE
NeedsEntry(cd, channelKey) == channelKey \notin DOMAIN cd

\* channelData[channelKey].temperature = temperature; .lastUpdate = new Date();
\* .dataCount++
MutUpdatedEntry(entry, temperature, t) ==
  IF temperature = 0 THEN entry
  ELSE [entry EXCEPT !.temperature = temperature, !.lastUpdate = t, !.dataCount = @ + 1]
UpdatedEntry(entry, temperature, t) ==
  [entry EXCEPT !.temperature = temperature, !.lastUpdate = t, !.dataCount = @ + 1]

\* processValidMessage(parsed, dataloggerID) at time t: the new channelData
MutProcessValidMessage(cd, cfg, ports, msg, dataloggerID, t) ==
  IF ~msg.valid \/ "temperature" \notin DOMAIN msg \/ dataloggerID \notin DOMAIN ports
  THEN cd
  ELSE
    LET channelKey == createChannelKey("primary", msg.channelHex)
        cd1 == IF NeedsEntry(cd, channelKey)
               THEN SetKey(cd, channelKey,
                           NewEntry(cfg, ports[dataloggerID], dataloggerID,
                                    msg.channelNumber, t))
               ELSE cd
    IN [cd1 EXCEPT ![channelKey] = UpdatedEntry(@, msg.temperature, t)]
processValidMessage(cd, cfg, ports, msg, dataloggerID, t) ==
  IF \/ ~msg.valid
     \/ "channelHex" \notin DOMAIN msg
     \/ "channelNumber" \notin DOMAIN msg
     \/ "temperature" \notin DOMAIN msg
  THEN cd
  ELSE IF msg.channelHex = <<>> \/ msg.channelNumber = 0 THEN cd
  ELSE
    LET channelKey == createChannelKey(dataloggerID, msg.channelHex) IN
    IF dataloggerID \notin DOMAIN ports THEN cd
    ELSE
      LET cd1 == IF NeedsEntry(cd, channelKey)
                 THEN SetKey(cd, channelKey,
                             NewEntry(cfg, ports[dataloggerID], dataloggerID,
                                      msg.channelNumber, t))
                 ELSE cd
      IN [cd1 EXCEPT ![channelKey] = UpdatedEntry(@, msg.temperature, t)]

\* result.messages.forEach((parsed) => { if (parsed.valid) processValidMessage(...) })
RECURSIVE MutForEachMessage(_, _, _, _, _, _)
MutForEachMessage(cd, cfg, ports, messages, dataloggerID, t) ==
  IF messages = <<>> \/ ~Head(messages).valid THEN cd
  ELSE MutForEachMessage(
         processValidMessage(cd, cfg, ports, Head(messages), dataloggerID, t),
         cfg, ports, Tail(messages), dataloggerID, t)
RECURSIVE ForEachMessage(_, _, _, _, _, _)
ForEachMessage(cd, cfg, ports, messages, dataloggerID, t) ==
  IF messages = <<>> THEN cd
  ELSE ForEachMessage(
         IF Head(messages).valid
         THEN processValidMessage(cd, cfg, ports, Head(messages), dataloggerID, t)
         ELSE cd,
         cfg, ports, Tail(messages), dataloggerID, t)

\* Buffer.prototype.toString("ascii"): the high bit of every byte is cleared
AsciiChar(byte) ==
  CASE byte = "0xB5" -> "5" [] byte = "0x8D" -> CR [] OTHER -> byte
toStringAscii(data) == [i \in 1..Len(data) |-> AsciiChar(data[i])]

\* server.ts isChannelConnected(lastUpdate), evaluated at time t
MutIsChannelConnected(lastUpdate, t) == (t - lastUpdate) <= 60 /\ lastUpdate > 0
isChannelConnected(lastUpdate, t) == (t - lastUpdate) < 60 /\ lastUpdate > 0

\* showChannelSummary: const connected = age < 60 && hasData
SummaryConnected(data, t) ==
  LET age == t - data.lastUpdate
      hasData == data.lastUpdate > 0
  IN age < 60 /\ hasData

\* parser.ts createDefaultDataloggerConfig: the descriptor built for a discovered datalogger
createDefaultDataloggerConfig(dataloggerNum, serialPath, channels) ==
  [id |-> IF dataloggerNum = 1 THEN "primary"
          ELSE "datalogger" \o (CASE dataloggerNum = 2 -> "2" [] dataloggerNum = 3 -> "3"),
   name |-> <<"D", "a", "t", "a", "l", "o", "g", "g", "e", "r", " ">>
              \o NumberToString(dataloggerNum),
   serial |-> [path |-> serialPath],
   thermocouples |->
     [i \in 1..Len(channels) |->
        [name |-> createThermocoupleDefaultName(dataloggerNum, channels[i].number),
         type |-> "K", channel |-> channels[i].number]],
   autoDetected |-> TRUE]

(***************************************************************************)
(* Configurations, chunks and instants of the store's runs                 *)
(***************************************************************************)
MaxEvents == 4
StartTime == 1000

NameDatalogger1 == <<"D", "a", "t", "a", "l", "o", "g", "g", "e", "r", " ", "1">>
NameLabD7 == <<"L", "a", "b", " ", "D", "7">>
NameRig12 == <<"R", "i", "g", " ", "1", "2">>
NameBench == <<"B", "e", "n", "c", "h">>

\* A config.json with one named thermocouple, a default type and a connection
\* timeout of its own
ConfigA ==
  [dataloggers |->
     << [id |-> "primary", name |-> NameDatalogger1,
         serial |-> [path |-> "/dev/ttyUSB0"],
         thermocouples |-> << [name |-> <<"O", "v", "e", "n">>, type |-> "J", channel |-> 1] >>],
        [id |-> "secondary", name |-> NameLabD7,
         serial |-> [path |-> "/dev/ttyUSB1"],
         thermocouples |-> << >>] >>,
   globalSettings |-> [connectionTimeout |-> 30, defaultThermocoupleType |-> "T"]]

\* A config.json without globalSettings, one channel configured twice
ConfigB ==
  [dataloggers |->
     << [id |-> "primary", name |-> NameRig12,
         serial |-> [path |-> "/dev/ttyUSB0"],
         thermocouples |-> << >>],
        [id |-> "secondary", name |-> NameBench,
         serial |-> [path |-> "/dev/ttyUSB1"],
         thermocouples |-> << [name |-> <<"B", "a", "t", "h">>, type |-> "K", channel |-> 1],
                              [name |-> <<"D", "u", "p">>, type |-> "N", channel |-> 1] >>] >>]

\* The configuration initializeApp builds from two discovered dataloggers
ConfigC ==
  [dataloggers |->
     << createDefaultDataloggerConfig(1, "/dev/ttyUSB0",
          << [hex |-> <<"4", "2">>, number |-> 2, temperature |-> 215] >>),
        createDefaultDataloggerConfig(2, "/dev/ttyUSB1",
          << [hex |-> <<"4", "A">>, number |-> 10, temperature |-> 5] >>) >>,
   globalSettings |-> [connectionTimeout |-> 60, defaultThermocoupleType |-> "K"]]

Configs == {ConfigA, ConfigB, ConfigC}

\* Chunks the first datalogger's port delivers: a whole frame (channel 1, 23.5); the
\* head and the tail of a frame (channel 1, 0.0), the tail with high-bit bytes; a
\* malformed frame, a frame of the unknown channel 4D and a frame with two digits only,
\* followed by a good one (channel 2, -1.2)
ChunkFull == ReadingFrame("1", "0", <<"2", "3", "5">>) \o <<CR>>
ChunkHead == <<STX, "4", "1", "0", "1">>
ChunkTail == <<"0", "1", "0", "0", "0", "0x8D">>
ChunkBadThenGood ==
  <<"x", "4", "1", CR>>
    \o ReadingFrame("d", "0", <<"1", "0", "0">>) \o <<CR>>
    \o ReadingFrame("3", "0", <<"1", "2">>) \o <<CR>>
    \o ReadingFrame("2", "1", <<"0", "1", "2">>) \o <<CR>>

\* Chunks the second datalogger's port delivers: channel 1 at 99.9; channel 4a at 0.5
ChunkOther == ReadingFrame("1", "0", <<"9", "9", "9">>) \o <<CR>>
ChunkLower == ReadingFrame("a", "0", <<"0", "0", "0xB5">>) \o <<CR>>

ChunksOf(i) ==
  IF i = 1 THEN {ChunkFull, ChunkHead, ChunkTail, ChunkBadThenGood}
  ELSE {ChunkOther, ChunkLower}

\* The instants at which the clock is observed
StoreInstants == {StartTime + d : d \in {0, 59, 60, 61}}

KeysOf(cfg) ==
  {createChannelKey(cfg.dataloggers[i].id, hex) :
     i \in 1..Len(cfg.dataloggers), hex \in VALID_CHANNEL_IDS}

\* State once initializeApp has pre-populated the configured channels and
\* initializeDataloggers has set up one port and one empty buffer per datalogger
InitStore ==
  /\ config \in Configs
  /\ now = StartTime
  /\ channelData = PrePopulate(<<>>, config.dataloggers, now)
  /\ dataloggerPorts = InitialPorts(<<>>, config.dataloggers)
  /\ events = 0
  /\ received = [k \in KeysOf(config) |-> [count |-> 0, temperature |-> 0, time |-> 0]]
  /\ rejected = 0
  /\ OutsideStoreIdle

\* History: the valid readings for key k among the messages of one data event
ReadingsFor(messages, k) ==
  {j \in 1..Len(messages) :
     /\ messages[j].valid
     /\ SubSeq(k, 3, 4) = messages[j].channelHex}

\* History: the messages of one data event that were parsed as errors
ErrorsIn(messages) == {j \in 1..Len(messages) : ~messages[j].valid}

\* port.on("data", ...) of datalogger number i: the chunk is decoded, split with this
\* datalogger's buffer, and every valid message is applied to channelData
DataEvent(i, data) ==
  LET datalogger == config.dataloggers[i]
      dataloggerInfo == dataloggerPorts[datalogger.id]
      rawData == toStringAscii(data)
      result == processSerialBuffer(dataloggerInfo.buffer, rawData)
  IN /\ events < MaxEvents
     /\ dataloggerPorts' = [dataloggerPorts EXCEPT ![datalogger.id].buffer = result.buffer]
     /\ channelData' = ForEachMessage(channelData, config, dataloggerPorts,
                                      result.messages, datalogger.id, now)
     /\ received' =
          [k \in DOMAIN received |->
             LET js == ReadingsFor(result.messages, k) IN
             IF k[1] = datalogger.id /\ js # {}
             THEN [count |-> received[k].count + Cardinality(js),
                   temperature |-> result.messages[MaxOf(js)].temperature,
                   time |-> now]
             ELSE received[k]]
     /\ rejected' = rejected + Cardinality(ErrorsIn(result.messages))
     /\ events' = events + 1
     /\ UNCHANGED <<config, now, outsideStore>>

OnData == \E i \in 1..Len(config.dataloggers) : \E data \in ChunksOf(i) : DataEvent(i, data)

\* Time passes
Tick ==
  /\ \E t \in StoreInstants : t > now /\ now' = t
  /\ UNCHANGED <<config, dataloggerPorts, channelData, events, received, rejected,
                 outsideStore>>

Next == OnData \/ Tick

Spec == InitStore /\ [][Next]_vars

(***************************************************************************)
(* Properties of the channel state store                                   *)
(***************************************************************************)
Mutated(a, b) ==
  a.temperature # b.temperature \/ a.lastUpdate # b.lastUpdate \/ a.dataCount # b.dataCount

StaticDatalogger(id) ==
  config.dataloggers[CHOOSE i \in 1..Len(config.dataloggers) : config.dataloggers[i].id = id]
StaticMatches(id, channelNum) ==
  {i \in 1..Len(StaticDatalogger(id).thermocouples) :
     StaticDatalogger(id).thermocouples[i].channel = channelNum}
ConfiguredDefaultType ==
  IF "globalSettings" \in DOMAIN config
  THEN config.globalSettings.defaultThermocoupleType ELSE "K"
\* The number a datalogger's display name carries (1 when it carries none)
IntendedNumber(name) ==
  CASE name = NameDatalogger1 -> <<"1">>
    [] name = NameLabD7 -> <<"7">>
    [] name = NameRig12 -> <<"1", "2">>
    [] name = NameBench -> <<"1">>
    [] OTHER -> <<"2">>
ChannelDigits(channelNum) == IF channelNum < 10 THEN <<DigitChars[channelNum + 1]>>
                             ELSE <<"1", DigitChars[channelNum - 9]>>

C9_EveryReadingCounts ==
  /\ DOMAIN channelData \subseteq DOMAIN received
  /\ \A k \in DOMAIN received :
       IF k \in DOMAIN channelData
       THEN /\ channelData[k].dataCount = received[k].count
            /\ (channelData[k].dataCount = 0) <=> (channelData[k].lastUpdate = 0)
            /\ received[k].count > 0 =>
                 /\ channelData[k].temperature = received[k].temperature
                 /\ channelData[k].lastUpdate = received[k].time
       ELSE received[k].count = 0

\* C9 witness: a key that had a non-zero reading took a reading of exactly 0 later
C9_Witness ==
  \E k \in DOMAIN channelData :
    /\ channelData[k].temperature = 0
    /\ channelData[k].dataCount = 2
    /\ channelData[k].lastUpdate > channelData[k].firstSeen
    /\ received[k].temperature = 0

RefConnectionTimeout ==
  IF "globalSettings" \in DOMAIN config /\ "connectionTimeout" \in DOMAIN config.globalSettings
  THEN config.globalSettings.connectionTimeout
  ELSE 60

\* C11: with a configured connection timeout of T seconds (globalSettings.connectionTimeout,
\* 60 when none is configured) a channel is reported connected exactly while a reading
\* for it has arrived and less than T seconds have passed since the last one.
C11_ConnectedWithinConfiguredTimeout ==
  \A k \in DOMAIN channelData :
    isChannelConnected(channelData[k].lastUpdate, now) =
      (received[k].count > 0 /\ now - received[k].time < RefConnectionTimeout)

\* The dataloggers whose port delivered bytes in a step: a buffer changed, or a valid
\* reading arrived for one of its keys
SourcesOfStep ==
  {d \in DOMAIN dataloggerPorts :
     \/ dataloggerPorts'[d].buffer # dataloggerPorts[d].buffer
     \/ \E k \in DOMAIN received : k[1] = d /\ received'[k] # received[k]}

Key41(id) == createChannelKey(id, <<"4", "1">>)

C13_ErrorFramesHarmless ==
  /\ [][rejected' > rejected =>
          \A k \in DOMAIN received :
            IF received'[k] = received[k]
            THEN IF k \in DOMAIN channelData
                 THEN k \in DOMAIN channelData' /\ channelData'[k] = channelData[k]
                 ELSE k \notin DOMAIN channelData'
            ELSE /\ k \in DOMAIN channelData'
                 /\ channelData'[k].dataCount = received'[k].count
                 /\ channelData'[k].temperature = received'[k].temperature
                 /\ channelData'[k].lastUpdate = now]_vars
  /\ [](rejected > 0 =>
          \A k \in DOMAIN received :
            IF k \in DOMAIN channelData
            THEN channelData[k].dataCount = received[k].count
            ELSE received[k].count = 0)

\* C13 witness: after the three error frames and the good frame of one chunk, a later
\* chunk brought a second reading for the channel of the good frame, and the channels
\* named by the error frames have no entry
C13_Witness ==
  /\ config = ConfigB
  /\ rejected >= 6
  /\ createChannelKey("primary", <<"4", "2">>) \in DOMAIN channelData
  /\ channelData[createChannelKey("primary", <<"4", "2">>)].dataCount = 2
  /\ channelData[createChannelKey("primary", <<"4", "2">>)].temperature = -12
  /\ createChannelKey("primary", <<"4", "3">>) \notin DOMAIN channelData
  /\ createChannelKey("primary", <<"4", "1">>) \notin DOMAIN channelData

(***************************************************************************)
(* The acquisition supervisor: initializeDataloggers and the port event    *)
(* handlers of the multi-datalogger index module.  A port is an object of  *)
(* the serialport package: its constructor returns (or throws on arguments *)
(* it refuses) before the device is opened, and the outcome of opening     *)
(* arrives later as an "open" or an "error" event; a port that is open may *)
(* emit "close".                                                           *)
(***************************************************************************)
DataloggerLists ==
  { <<"primary">>, <<"primary", "secondary">>, <<"primary", "secondary", "tertiary">> }

IdsOf(dataloggers) == {dataloggers[i] : i \in 1..Len(dataloggers)}

\* State when initializeApp has chosen the dataloggers and the one-second timer that
\* calls initializeDataloggers is pending
InitSupervisor ==
  /\ activeDataloggers \in DataloggerLists
  /\ isCliOnly \in BOOLEAN
  /\ appState = "initializing"
  /\ serverStarted = FALSE
  /\ portStatus = <<>>
  /\ OutsideSupervisorIdle

\* let successCount: the dataloggers whose new SerialPort(...) did not throw
successCount(outcome) == Cardinality({d \in DOMAIN outcome : outcome[d] = "constructed"})

\* const isServerMode = !isCliOnly
isServerMode == ~isCliOnly

\* initializeDataloggers(): one new SerialPort per datalogger inside try/catch, then
\* process.exit(1) if none was constructed, else the server module is imported
initializeDataloggers ==
  /\ appState = "initializing"
  /\ \E outcome \in [IdsOf(activeDataloggers) -> {"constructed", "threw"}] :
       /\ portStatus' = outcome
       /\ IF successCount(outcome) = 0
          THEN appState' = "exited" /\ serverStarted' = FALSE
          ELSE appState' = "running" /\ serverStarted' = isServerMode
  /\ UNCHANGED <<activeDataloggers, isCliOnly, outsideSupervisor>>

\* port.on("open", ...): the handler writes two log lines
OnPortOpen(d) ==
  /\ appState = "running"
  /\ portStatus[d] = "constructed"
  /\ portStatus' = [portStatus EXCEPT ![d] = "open"]
  /\ UNCHANGED <<activeDataloggers, isCliOnly, appState, serverStarted, outsideSupervisor>>

\* port.on("error", ...) for a port that could not be opened: the handler prints the error
OnPortError(d) ==
  /\ appState = "running"
  /\ portStatus[d] = "constructed"
  /\ portStatus' = [portStatus EXCEPT ![d] = "failed"]
  /\ UNCHANGED <<activeDataloggers, isCliOnly, appState, serverStarted, outsideSupervisor>>

\* port.on("close", ...) for an open port: the handler writes one log line
OnPortClose(d) ==
  /\ appState = "running"
  /\ portStatus[d] = "open"
  /\ portStatus' = [portStatus EXCEPT ![d] = "closed"]
  /\ UNCHANGED <<activeDataloggers, isCliOnly, appState, serverStarted, outsideSupervisor>>

PortOpens == \E d \in DOMAIN portStatus : OnPortOpen(d)
PortFails == \E d \in DOMAIN portStatus : OnPortError(d)
PortCloses == \E d \in DOMAIN portStatus : OnPortClose(d)

NextSupervisor == initializeDataloggers \/ PortOpens \/ PortFails \/ PortCloses

SpecSupervisor == InitSupervisor /\ [][NextSupervisor]_vars

\* Every handler that is enabled runs: the event loop starves no callback
SpecSupervisorFair == SpecSupervisor /\ WF_vars(NextSupervisor)

\* C14: at start-up one port is started per datalogger; once a port has opened the
\* application is running; and if every port failed to open (its constructor threw or
\* its open failed) the process has exited and the server was never started.
C14_HaltsWhenNoPortOpens ==
  /\ appState # "initializing" => DOMAIN portStatus = IdsOf(activeDataloggers)
  /\ (\E d \in DOMAIN portStatus : portStatus[d] = "open") => appState = "running"
  /\ (/\ appState # "initializing"
      /\ \A d \in DOMAIN portStatus : portStatus[d] \in {"threw", "failed"})
     => appState = "exited" /\ ~serverStarted

\* C15: after a datalogger's port failed or closed during acquisition, that port is
\* eventually open again.
C15_FailedPortReopens ==
  \A d \in {"primary", "secondary", "tertiary"} :
    (d \in DOMAIN portStatus /\ portStatus[d] \in {"failed", "closed"})
      ~> (d \in DOMAIN portStatus /\ portStatus[d] = "open")

(***************************************************************************)
(* The serial port driver (class SerialPort of the serialport module):     *)
(* open(), connectWithRetry, openPort and the handlers of the child        *)
(* process.  A message is a sequence of phrases; String.includes(p) holds  *)
(* when p is one of them.  Timers are events; a retry timer (1 s or more)  *)
(* fires after the 100 ms settle timer that the same open() call started   *)
(* before it.                                                              *)
(***************************************************************************)
maxReconnectAttempts == 10
reconnectDelay == 1000
MaxBackoff == 30000
MaxOthers == 1
MaxStray == 1

DevicePath == "/dev/ttyUSB0"
Platforms == {"linux", "sunos"}

\* What the child process may write on its standard error
RawDiagnostics ==
  { <<"cat:", DevicePath, "Permission denied">>,
    <<"stty:", DevicePath, "Operation not permitted">>,
    <<"cu:", "Line in use">>,
    <<"cat:", DevicePath, "Device or resource busy">>,
    <<"cat:", DevicePath, "No such file or directory">>,
    <<"cat:", "cannot open", DevicePath>>,
    <<"cat:", DevicePath, "Input/output error">>,
    <<"device", "disconnected">>,
    <<"warning">>,
    << >> }

\* message.includes(pattern)
includes(msg, pattern) == \E i \in 1..Len(msg) : msg[i] = pattern

ErrAlreadyOpen == <<"Port already open">>
ErrLocked == <<"Serial port", DevicePath, "is locked or unavailable">>
ErrUnsupported(p) == <<"Unsupported platform:", p>>
ErrCommandFailed == <<"Command failed:", "stty -F", DevicePath>>
ErrPermission ==
  <<"Permission denied accessing", DevicePath, ". Try running with appropriate permissions.">>
ErrInUse == <<"Serial port", DevicePath, "is already in use by another process">>
ErrNotFound == <<"Serial port", DevicePath, "not found. Please check the device connection.">>
ErrIO == <<"I/O error on", DevicePath, ". Device may have been", "disconnected", ".">>
ErrExitCode == <<"Process exited with code", "1">>
ErrSignal == <<"Process terminated by signal", "SIGTERM">>
ErrSpawn == <<"spawn", "cat", "ENOENT">>

\* setupProcessHandlers, stderr handler: the Error it emits for a chunk of diagnostic
\* output, << >> when it emits none
ClassifyStderr(errorMessage) ==
  IF includes(errorMessage, "Permission denied")
       \/ includes(errorMessage, "Operation not permitted")
  THEN ErrPermission
  ELSE IF includes(errorMessage, "Line in use")
            \/ includes(errorMessage, "Device or resource busy")
  THEN ErrInUse
  ELSE IF includes(errorMessage, "No such file or directory")
            \/ includes(errorMessage, "cannot open")
  THEN ErrNotFound
  ELSE IF includes(errorMessage, "Input/output error")
  THEN ErrIO
  ELSE IF Len(errorMessage) > 0
  THEN <<"Serial port error:">> \o errorMessage
  ELSE << >>

\* shouldReconnect(error)
MutShouldReconnect(attempts, error) ==
  /\ attempts <= maxReconnectAttempts
  /\ \/ includes(error, "cannot open")
     \/ includes(error, "disconnected")
     \/ includes(error, "Device or resource busy")
shouldReconnect(attempts, error) ==
  /\ attempts < maxReconnectAttempts
  /\ \/ includes(error, "cannot open")
     \/ includes(error, "disconnected")
     \/ includes(error, "Device or resource busy")

Min(a, b) == IF a < b THEN a ELSE b

\* scheduleReconnect: the delay, computed after reconnectAttempts++
BackoffDelay(attempts) == Min(reconnectDelay * 2 ^ (attempts - 1), MaxBackoff)

\* A new open() call: its promise is pending
NewCall(state, error) ==
  [state |-> state, error |-> error, settle |-> FALSE,
   attempts |-> 0, retries |-> 0, delay |-> 0]

\* connectWithRetry, onError of call c, run on the driver state st
onError(st, c, error) ==
  IF shouldReconnect(st.reconnectAttempts, error)
  THEN [calls |-> [st.calls EXCEPT ![c].state = "backoff",
                                   ![c].error = error,
                                   ![c].retries = @ + 1,
                                   ![c].delay = BackoffDelay(st.reconnectAttempts + 1)],
        reconnectAttempts |-> st.reconnectAttempts + 1]
  ELSE [calls |-> [st.calls EXCEPT ![c].state = "rejected", ![c].error = error],
        reconnectAttempts |-> st.reconnectAttempts]

\* this.emit("error", error): every registered onError runs, in registration order
RECURSIVE EmitError(_, _, _)
EmitError(st, ls, error) ==
  IF ls = << >> THEN st
  ELSE EmitError(onError(st, Head(ls), error), Tail(ls), error)

\* readable, onError of the stream: controller.error(error); it throws, and is
\* ignored, unless the stream is readable
Errored(stream) == IF stream = "readable" THEN "errored" ELSE stream

\* readable, onClose of the stream: controller.close()
Closed(stream) == IF stream = "readable" THEN "closed" ELSE stream

\* readable, onError of the stream: this.connectionHealthy = false
HealthAfterError == IF readable_ # "null" THEN FALSE ELSE connectionHealthy

\* The driver after this.emit("error", error): the onError of every open() call and
\* the onError of the readable stream have run
AfterError(cs, error) ==
  LET st == EmitError([calls |-> cs, reconnectAttempts |-> reconnectAttempts],
                      listeners, error)
  IN /\ calls' = st.calls
     /\ reconnectAttempts' = st.reconnectAttempts
     /\ listeners' = << >>
     /\ lastSignal' = "error"
     /\ readable_' = Errored(readable_)

\* openPort: what the platform table and commands.connect do on this platform
OpenPortOutcomes ==
  IF platform \notin {"darwin", "linux", "win32"} THEN {"unsupported"}
  ELSE IF platform = "linux" THEN {"spawned", "commandFailed"}
  ELSE {"spawned"}

\* connectWithRetry, attemptConnection of call c: onOpen and onError are registered and
\* openPort() runs; it spawns the process and starts the settle timer, or emits "error"
attemptConnection(c, outcome) ==
  LET counted == [calls EXCEPT ![c].state = "connecting", ![c].attempts = @ + 1]
      registered == Append(listeners, c)
  IN IF outcome = "spawned"
     THEN /\ process' = [status |-> "running", killed |-> FALSE, said |-> FALSE]
          /\ others' = IF process.status = "running" THEN Min(others + 1, MaxOthers)
                       ELSE others
          /\ calls' = [counted EXCEPT ![c].settle = TRUE]
          /\ listeners' = registered
          /\ lastSignal' = "none"
          /\ UNCHANGED <<isConnected, reconnectAttempts, ioVars>>
     ELSE LET error == IF outcome = "unsupported" THEN ErrUnsupported(platform)
                       ELSE ErrCommandFailed
              st == EmitError([calls |-> counted, reconnectAttempts |-> reconnectAttempts],
                              registered, error)
          IN /\ calls' = st.calls
             /\ reconnectAttempts' = st.reconnectAttempts
             /\ listeners' = << >>
             /\ lastSignal' = "error"
             /\ readable_' = Errored(readable_)
             /\ connectionHealthy' = HealthAfterError
             /\ UNCHANGED <<process, others, isConnected, healthCheckInterval,
                            sinceData, sinceCheck, quiet, signalled, streamed,
                            writeVars, killTimers>>

InitDriver ==
  /\ platform \in Platforms
  /\ isConnected = FALSE
  /\ reconnectAttempts = 0
  /\ process = NoProcess
  /\ others = 0
  /\ calls = << >>
  /\ listeners = << >>
  /\ lastSignal = "none"
  /\ IoIdle
  /\ OutsideDriverIdle

Settled(call) == call.state \in {"resolved", "rejected"}

HasTimer(call) == call.settle

\* What is kept of a settled call whose settle timer is pending: the timer
Gone == [NewCall("gone", << >>) EXCEPT !.settle = TRUE]
Timers(cs) == [i \in 1..Len(SelectSeq(cs, HasTimer)) |-> Gone]

\* open(), up to its first await: it throws when the port is connected
MutOpenCall == NewCall("checking", << >>)
OpenCall ==
  IF isConnected THEN NewCall("rejected", ErrAlreadyOpen)
  ELSE NewCall("checking", << >>)

\* open(): rejects when the port is connected, else waits for isPortAvailable().  The
\* caller awaits one open() before it calls the next; of the calls that have settled
\* only the pending settle timers are kept.
Open ==
  /\ \A i \in 1..Len(calls) : Settled(calls[i]) \/ calls[i].state = "gone"
  /\ Len(Timers(calls)) <= MaxStray
  /\ calls' = Append(Timers(calls), OpenCall)
  /\ lastSignal' = "call"
  /\ closeReturned' = FALSE
  /\ UNCHANGED <<platform, isConnected, reconnectAttempts, process, others, listeners,
                 ioVars, outsideDriverState>>

\* open() continues when isPortAvailable() has answered
PortAvailable(c) ==
  /\ calls[c].state = "checking"
  /\ \E available \in BOOLEAN :
       IF ~available
       THEN /\ calls' = [calls EXCEPT ![c].state = "rejected", ![c].error = ErrLocked]
            /\ lastSignal' = "none"
            /\ UNCHANGED <<isConnected, reconnectAttempts, process, others, listeners,
                           ioVars>>
       ELSE \E outcome \in OpenPortOutcomes : attemptConnection(c, outcome)
  /\ UNCHANGED <<platform, outsideDriver>>

\* The backoff timer of call c fires: scheduleReconnect().then(attemptConnection)
RetryFires(c) ==
  /\ calls[c].state = "backoff"
  /\ ~calls[c].settle
  /\ \E outcome \in OpenPortOutcomes : attemptConnection(c, outcome)
  /\ UNCHANGED <<platform, outsideDriver>>

\* The 100 ms timer of openPort fires: "open" is emitted if this.process is set and
\* was not killed, and every registered onOpen resolves its call
SettleFires(c) ==
  /\ calls[c].settle
  /\ LET settled == [calls EXCEPT ![c].settle = FALSE] IN
     IF process.status # "null" /\ ~process.killed
     THEN /\ calls' = [i \in 1..Len(calls) |->
                         IF \E j \in 1..Len(listeners) : listeners[j] = i
                         THEN [settled[i] EXCEPT !.state = "resolved"]
                         ELSE settled[i]]
          /\ IF listeners # << >>
             THEN /\ isConnected' = TRUE /\ reconnectAttempts' = 0
                  /\ connectionHealthy' = TRUE /\ sinceData' = 0 /\ quiet' = 0
             ELSE UNCHANGED <<isConnected, reconnectAttempts, connectionHealthy,
                              sinceData, quiet>>
          /\ listeners' = << >>
          /\ lastSignal' = "open"
     ELSE /\ calls' = settled
          /\ lastSignal' = "none"
          /\ UNCHANGED <<isConnected, reconnectAttempts, listeners, connectionHealthy,
                         sinceData, quiet>>
  /\ UNCHANGED <<platform, process, others, healthCheckInterval, sinceCheck,
                 streamVars, writeVars, killTimers, outsideDriver>>

\* process.stderr.on("data"): the chunk is classified and emitted as an "error"
Stderr(raw) ==
  /\ process.status = "running"
  /\ ~process.said
  /\ process' = [process EXCEPT !.said = TRUE]
  /\ IF ClassifyStderr(raw) # << >>
     THEN AfterError(calls, ClassifyStderr(raw)) /\ connectionHealthy' = HealthAfterError
     ELSE /\ lastSignal' = "none"
          /\ UNCHANGED <<calls, reconnectAttempts, listeners, readable_,
                         connectionHealthy>>
  /\ UNCHANGED <<platform, isConnected, others, healthCheckInterval, sinceData,
                 sinceCheck, quiet, signalled, streamed, writeVars, killTimers,
                 outsideDriver>>

\* process.on("close", (code, signal)): "close" after a clean exit, otherwise "error"
CloseHandler(how) ==
  /\ isConnected' = FALSE
  /\ connectionHealthy' = FALSE
  /\ IF how = "code" THEN AfterError(calls, ErrExitCode)
     ELSE IF how = "signal" THEN AfterError(calls, ErrSignal)
     ELSE /\ lastSignal' = "close"
          /\ readable_' = Closed(readable_)
          /\ UNCHANGED <<calls, reconnectAttempts, listeners>>
  /\ UNCHANGED <<healthCheckInterval, sinceData, sinceCheck, quiet, signalled,
                 streamed, writeVars, killTimers>>

ExitKinds == {"clean", "code", "signal"}

\* The process this.process refers to exits
ProcessCloses ==
  /\ process.status = "running"
  /\ process' = [process EXCEPT !.status = "exited"]
  /\ \E how \in ExitKinds : CloseHandler(how)
  /\ UNCHANGED <<platform, others, outsideDriver>>

\* A process spawned by an earlier attempt exits
OtherProcessCloses ==
  /\ others > 0
  /\ others' \in (IF others = MaxOthers THEN {others, others - 1} ELSE {others - 1})
  /\ \E how \in ExitKinds : CloseHandler(how)
  /\ UNCHANGED <<platform, process, outsideDriver>>

\* process.on("error"): the command could not be spawned
ProcessErrors ==
  /\ process.status = "running"
  /\ ~process.said
  /\ process' = [process EXCEPT !.status = "exited"]
  /\ isConnected' = FALSE
  /\ connectionHealthy' = FALSE
  /\ AfterError(calls, ErrSpawn)
  /\ UNCHANGED <<platform, others, healthCheckInterval, sinceData, sinceCheck, quiet,
                 signalled, streamed, writeVars, killTimers, outsideDriver>>

NextDriver ==
  \/ Open
  \/ \E c \in 1..Len(calls) : PortAvailable(c)
  \/ \E c \in 1..Len(calls) : RetryFires(c)
  \/ \E c \in 1..Len(calls) : SettleFires(c)
  \/ \E raw \in RawDiagnostics : Stderr(raw)
  \/ ProcessCloses
  \/ OtherProcessCloses
  \/ ProcessErrors

SpecDriver == InitDriver /\ [][NextDriver]_vars

\* Timers fire and isPortAvailable() answers; what the child processes do and whether
\* open() is called again is left to the environment
SpecDriverFair ==
  /\ SpecDriver
  /\ WF_vars(\E c \in 1..Len(calls) : PortAvailable(c))
  /\ WF_vars(\E c \in 1..Len(calls) : RetryFires(c))
  /\ WF_vars(\E c \in 1..Len(calls) : SettleFires(c))

Last(seq) == seq[Len(seq)]

\* C16: open() called on a driver that is open (isOpen true) rejects with "Port
\* already open"; the driver stays open, and its process, the processes of earlier
\* attempts, the retry counter and the registered listeners are left as they were.
C16_OpenWhenOpenRejects ==
  [][(isConnected /\ lastSignal' = "call")
       => /\ Last(calls').state = "rejected"
          /\ Last(calls').error = ErrAlreadyOpen
          /\ Last(calls').attempts = 0
          /\ isConnected'
          /\ UNCHANGED <<process, others, reconnectAttempts, listeners>>]_vars

\* An open() that resolved with a running process was followed by a second open(),
\* which was rejected
C16_Witness ==
  /\ lastSignal = "call"
  /\ isConnected
  /\ process.status = "running"
  /\ Last(calls).state = "rejected"
  /\ Last(calls).error = ErrAlreadyOpen

\* The failures the process reports that are of the permission-denied, device-busy
\* or disconnect class
IsTransientClass(error) ==
  \/ error \in {ErrPermission, ErrInUse, ErrIO}
  \/ includes(error, "disconnected")

\* C17: a failure of the permission-denied, device-busy or disconnect class never
\* fails an open() that has retries left, and only a failure of that class is
\* followed by a retry.
C17_TransientFailuresRetried ==
  \A c \in 1..Len(calls) :
    /\ (calls[c].state = "rejected" /\ IsTransientClass(calls[c].error))
         => reconnectAttempts >= maxReconnectAttempts
    /\ calls[c].state = "backoff" => IsTransientClass(calls[c].error)

\* C18: while an open() waits for its k-th retry, the delay of that retry is
\* min(1000 * 2^(k-1), 30000) ms: 1 s, 2 s, 4 s, 8 s, 16 s, 30 s, 30 s, ...
C18_BackoffDelays ==
  \A c \in 1..Len(calls) :
    calls[c].state = "backoff"
      => calls[c].delay = Min(1000 * 2 ^ (calls[c].retries - 1), 30000)

\* An open() call whose promise is pending
Pending(call) == call.state \in {"checking", "connecting", "backoff"}

\* C19 as stated: no open() makes more than 10 connection attempts, and every open()
\* that is pending is eventually resolved or rejected.
C19_TenAttemptsThenSettled ==
  /\ [](\A c \in 1..Len(calls) : calls[c].attempts <= 10)
  /\ (\E c \in 1..Len(calls) : Pending(calls[c]))
       ~> (\A c \in 1..Len(calls) : ~Pending(calls[c]))

\* C19, amended: no open() makes more than 11 connection attempts, the first and at
\* most 10 retries; an open() whose 11th attempt failed is rejected with the error of
\* that attempt, never waiting for a further retry; and every open() that is pending
\* is eventually resolved or rejected.
C19_ElevenAttemptsThenSettled ==
  /\ [](\A c \in 1..Len(calls) :
          /\ calls[c].attempts <= maxReconnectAttempts + 1
          /\ calls[c].retries <= maxReconnectAttempts
          /\ calls[c].attempts = maxReconnectAttempts + 1
               => calls[c].state \in {"connecting", "resolved", "rejected"})
  /\ (\E c \in 1..Len(calls) : Pending(calls[c]))
       ~> (\A c \in 1..Len(calls) : ~Pending(calls[c]))

\* An open() was rejected with the disconnect-class error of its 11th attempt, after
\* 10 retries, the last of them delayed by 30 s
C19_Witness ==
  \E c \in 1..Len(calls) :
    /\ calls[c].state = "rejected"
    /\ calls[c].attempts = 11
    /\ calls[c].retries = 10
    /\ calls[c].delay = 30000
    /\ includes(calls[c].error, "disconnected")

\* C20: "open" is emitted, and the driver is marked open, only with a backing process
\* that is alive.
C20_OpenOnlyWithLiveProcess ==
  /\ lastSignal = "open" => process.status = "running"
  /\ isConnected => process.status = "running"

(***************************************************************************)
(* The serial port driver, continued: close(), the write buffer with its   *)
(* drain loop, the legacy write(), the readable stream and the health      *)
(* monitoring.  A write is known by its id, the position of its call among *)
(* all writes.  writeBuffered is private; it is modelled for any number of *)
(* callers at a time, while the writable stream, its caller in the         *)
(* repository, hands it one chunk at a time.  close() is one step: its     *)
(* await of the streams' cancel() and abort() settles before any timer or  *)
(* process event is handled (no stream is locked by a reader or writer).   *)
(* The capacity of the write buffer, 1000 in the source, is scaled down.   *)
(***************************************************************************)
maxBufferSize == 2
MaxWrites == 4
MaxKillTimers == 1
MaxChunks == 3

\* clearWriteBuffer: every queued write is rejected with "Port closed"
MutClearWriteBuffer(buffer, outcomes) ==
  [id \in 1..Len(outcomes) |->
     IF buffer # << >> /\ id = Head(buffer) THEN "Port closed" ELSE outcomes[id]]
clearWriteBuffer(buffer, outcomes) ==
  [id \in 1..Len(outcomes) |->
     IF \E i \in 1..Len(buffer) : buffer[i] = id THEN "Port closed" ELSE outcomes[id]]

\* close(): if (this.process)
MutHasProcess == TRUE
HasProcess == process.status # "null"

\* close(): stops the health interval, cancels the streams, clears the write buffer,
\* sends SIGTERM to the process, starts the 5 s timer and forgets the process
Close ==
  /\ healthCheckInterval' = FALSE
  /\ sinceCheck' = 0
  /\ readable_' = "null"
  /\ writable_' = FALSE
  /\ writes' = clearWriteBuffer(writeBuffer, writes)
  /\ writeBuffer' = << >>
  /\ IF HasProcess
     THEN /\ killTimers' = IF killTimers < MaxKillTimers THEN killTimers + 1
                           ELSE MaxKillTimers
          /\ others' = IF process.status = "running" THEN Min(others + 1, MaxOthers)
                       ELSE others
     ELSE UNCHANGED <<killTimers, others>>
  /\ process' = NoProcess
  /\ isConnected' = FALSE
  /\ connectionHealthy' = FALSE
  /\ lastSignal' = "close()"
  /\ closeReturned' = TRUE
  /\ UNCHANGED <<platform, reconnectAttempts, calls, listeners, sinceData, quiet,
                 signalled, streamed, processingBuffer, drainers, delivered,
                 outsideDriverState>>

\* The 5 s timer of close() fires: SIGKILL for this.process, if there is one and
\* kill() has not signalled it yet
KillTimerFires ==
  /\ killTimers > 0
  /\ killTimers' \in (IF killTimers = MaxKillTimers THEN {killTimers, killTimers - 1}
                      ELSE {killTimers - 1})
  /\ process' = IF process.status = "running" /\ ~process.killed
                THEN [process EXCEPT !.killed = TRUE]
                ELSE process
  /\ lastSignal' = "none"
  /\ UNCHANGED <<platform, isConnected, reconnectAttempts, others, calls, listeners,
                 healthVars, streamVars, writeVars, outsideDriver>>

\* processWriteBuffer, from the test of its while loop to its next await or its end;
\* ok is what process.stdin.write returns
RECURSIVE processWriteBuffer(_, _)
processWriteBuffer(st, ok) ==
  IF st.buffer = << >> \/ ~isConnected
  THEN [st EXCEPT !.sleeping = FALSE]
  ELSE LET id == Head(st.buffer)
           shifted == [st EXCEPT !.buffer = Tail(@)]
       IN IF process.status = "null"
          THEN processWriteBuffer([shifted EXCEPT !.writes[id] = "Port not open"], ok)
          ELSE [shifted EXCEPT !.writes[id] = IF ok THEN "resolved" ELSE "Write failed",
                               !.delivered = Append(@, id),
                               !.sleeping = TRUE]

\* The driver after a run of processWriteBuffer that began with the buffer as given
AfterDrain(buffer, outcomes, before, ok) ==
  LET st == processWriteBuffer([buffer |-> buffer, writes |-> outcomes,
                                delivered |-> delivered, sleeping |-> FALSE], ok)
  IN /\ writeBuffer' = st.buffer
     /\ writes' = st.writes
     /\ delivered' = st.delivered
     /\ processingBuffer' = st.sleeping
     /\ drainers' = IF st.sleeping THEN before + 1 ELSE before

\* writeBuffered: the buffer is full
MutBufferFull(buffer) == Len(buffer) > maxBufferSize
BufferFull(buffer) == Len(buffer) >= maxBufferSize

\* writeBuffered starts a drain loop unless one is running
MutStartsDrain == TRUE
StartsDrain == ~processingBuffer

\* The sink of the writable stream writes a chunk: writeBuffered
WriteBuffered ==
  /\ writable_
  /\ Len(writes) < MaxWrites
  /\ IF ~isConnected
     THEN /\ writes' = Append(writes, "Port not open")
          /\ UNCHANGED <<writeBuffer, processingBuffer, drainers, delivered>>
     ELSE IF BufferFull(writeBuffer)
     THEN /\ writes' = Append(writes, "Write buffer overflow")
          /\ UNCHANGED <<writeBuffer, processingBuffer, drainers, delivered>>
     ELSE LET id == Len(writes) + 1
              pushed == Append(writeBuffer, id)
              pending == Append(writes, "pending")
          IN IF StartsDrain
             THEN \E ok \in BOOLEAN : AfterDrain(pushed, pending, drainers, ok)
             ELSE /\ writeBuffer' = pushed
                  /\ writes' = pending
                  /\ UNCHANGED <<processingBuffer, drainers, delivered>>
  /\ lastSignal' = "none"
  /\ UNCHANGED <<platform, isConnected, reconnectAttempts, process, others, calls,
                 listeners, healthVars, streamVars, writable_, killTimers,
                 outsideDriver>>

\* The 1 ms delay of a drain loop is over: the loop goes on
DrainWakes ==
  /\ drainers > 0
  /\ \E ok \in BOOLEAN : AfterDrain(writeBuffer, writes, drainers - 1, ok)
  /\ lastSignal' = "none"
  /\ UNCHANGED <<platform, isConnected, reconnectAttempts, process, others, calls,
                 listeners, healthVars, streamVars, writable_, killTimers,
                 outsideDriver>>

\* write(data), the legacy method: writeImmediate, past the write buffer
Write ==
  /\ Len(writes) < MaxWrites
  /\ IF ~isConnected \/ process.status = "null"
     THEN /\ writes' = Append(writes, "Port not open")
          /\ UNCHANGED delivered
     ELSE /\ writes' = Append(writes, "written")
          /\ delivered' = Append(delivered, Len(writes) + 1)
  /\ lastSignal' = "none"
  /\ UNCHANGED <<platform, isConnected, reconnectAttempts, process, others, calls,
                 listeners, healthVars, streamVars, writable_, writeBuffer,
                 processingBuffer, drainers, killTimers, outsideDriver>>

\* get writable: the stream is made when there is none and the port is open
Writable ==
  /\ ~writable_
  /\ isConnected
  /\ writable_' = TRUE
  /\ lastSignal' = "none"
  /\ UNCHANGED <<platform, isConnected, reconnectAttempts, process, others, calls,
                 listeners, healthVars, streamVars, writeBuffer, processingBuffer,
                 drainers, writes, delivered, killTimers, outsideDriver>>

\* The writes of a driver on linux whose process writes nothing on stderr
InitWrite == InitDriver /\ platform = "linux"

NextWrite ==
  \/ Open
  \/ \E c \in 1..Len(calls) : PortAvailable(c)
  \/ \E c \in 1..Len(calls) : SettleFires(c)
  \/ ProcessCloses
  \/ Close
  \/ Writable
  \/ WriteBuffered
  \/ DrainWakes
  \/ Write

SpecWrite == InitWrite /\ [][NextWrite]_vars

\* The ids that are in a sequence of ids
Ids(seq) == {seq[i] : i \in 1..Len(seq)}

\* A step in which a write is issued on an open driver
WriteOnOpen == Len(writes') = Len(writes) + 1 /\ isConnected

\* What the claim says of a write issued on an open driver: it is queued (or taken
\* from the queue by the drain loop at once) unless the buffer holds maxBufferSize
\* writes, and then it fails with the overflow error, nothing is queued or written
\* and the port stays open
QueuedOrOverflow ==
  LET id == Len(writes')
  IN IF Len(writeBuffer) >= maxBufferSize
     THEN /\ writes'[id] = "Write buffer overflow"
          /\ UNCHANGED <<writeBuffer, delivered, isConnected, process>>
     ELSE /\ writes'[id] \in {"pending", "resolved", "Write failed"}
          /\ writes'[id] = "pending" <=> id \in Ids(writeBuffer')
          /\ Ids(writeBuffer') \cup Ids(delivered') = Ids(writeBuffer) \cup Ids(delivered) \cup {id}

\* C21 as stated: the write buffer never holds more than maxBufferSize writes, and
\* every write issued on an open driver is queued, or fails with the overflow error
\* when the buffer is full.
C21_EveryWriteQueuedOrOverflow ==
  /\ [](Len(writeBuffer) <= maxBufferSize)
  /\ [][WriteOnOpen => QueuedOrOverflow]_vars

\* C21, amended: the write buffer never holds more than maxBufferSize writes; every
\* write that the writable stream issues on an open driver is queued, or fails with
\* the overflow error when the buffer is full; a write issued by the legacy write()
\* is written to the process at once and leaves the buffer as it is, full or not.
C21_StreamWriteQueuedOrOverflow ==
  /\ [](Len(writeBuffer) <= maxBufferSize)
  /\ [][WriteOnOpen =>
          IF writes'[Len(writes')] = "written"
          THEN /\ writeBuffer' = writeBuffer
               /\ delivered' = Append(delivered, Len(writes'))
          ELSE QueuedOrOverflow]_vars

\* A write failed with the overflow error while maxBufferSize writes were pending and
\* the port is open
C21_Witness ==
  /\ isConnected
  /\ Len(writeBuffer) = maxBufferSize
  /\ writes # << >>
  /\ writes[Len(writes)] = "Write buffer overflow"

\* The ids of seq are in increasing order
RECURSIVE Increasing(_)
Increasing(seq) ==
  Len(seq) < 2 \/ (seq[1] < seq[2] /\ Increasing(Tail(seq)))

\* The writes that went through the write buffer
IsBuffered(id) == writes[id] # "written"

\* C22 as stated: at most one drain loop runs, and the writes reach the process in
\* the order in which they were issued.
C22_OneLoopInOrder ==
  /\ drainers <= 1
  /\ Increasing(delivered)

\* C22, amended: at most one drain loop runs, and the writes issued through the
\* writable stream reach the process one at a time, each once, in the order in which
\* they were issued; a legacy write() is written at once, also ahead of queued writes.
C22_OneLoopBufferedInOrder ==
  /\ [](/\ drainers <= 1
        /\ processingBuffer <=> drainers = 1
        /\ Increasing(SelectSeq(delivered, IsBuffered)))
  /\ [][Len(delivered') <= Len(delivered) + 1]_vars

\* Two queued writes were drained in order after a legacy write had been written
\* ahead of them
C22_Witness ==
  /\ Len(delivered) >= 4
  /\ \E i, j, k \in 1..Len(delivered) :
       /\ i < j /\ j < k
       /\ delivered[i] > delivered[j]
       /\ writes[delivered[i]] = "written"
       /\ IsBuffered(delivered[j]) /\ IsBuffered(delivered[k])
       /\ delivered[j] < delivered[k]

NextClose ==
  \/ Open
  \/ \E c \in 1..Len(calls) : PortAvailable(c)
  \/ \E c \in 1..Len(calls) : SettleFires(c)
  \/ ProcessCloses
  \/ OtherProcessCloses
  \/ Close
  \/ KillTimerFires

SpecClose == InitWrite /\ [][NextClose]_vars

\* C25: when the driver is closed and the 5 s timers of its close() calls have fired,
\* no process that the driver started is running.
C25_NoProcessLeftAfterGrace ==
  (~isConnected /\ process.status = "null" /\ killTimers = 0) => others = 0

\* The driver is not open and has no process: it was closed, or never had a process
NotOpenNoProcess == ~isConnected /\ process.status = "null"

\* C26 as stated: a close() of a driver that is closed or was never opened changes
\* nothing: no field of the driver, no process, no timer, and no signal is emitted.
C26_CloseOfClosedIsNoOp ==
  [][(lastSignal' = "close()" /\ NotOpenNoProcess)
       => UNCHANGED <<platform, isConnected, reconnectAttempts, process, others, calls,
                      listeners, ioVars>>]_vars

\* C26, amended: a close() of a driver that is not open and has no process signals no
\* process, starts no timer and emits no signal; if the health interval was stopped
\* already (by an earlier close()) it changes nothing at all, otherwise it stops the
\* health interval and clears connectionHealthy, and nothing else.
C26_CloseOfClosedStopsMonitorOnly ==
  [][(lastSignal' = "close()" /\ NotOpenNoProcess)
       => /\ UNCHANGED <<platform, isConnected, reconnectAttempts, process, others,
                         calls, listeners, sinceData, sinceCheck, quiet, streamVars,
                         writeVars, killTimers>>
          /\ healthCheckInterval' = FALSE
          /\ connectionHealthy' = FALSE
          /\ ~healthCheckInterval => UNCHANGED connectionHealthy]_vars

\* A driver that was opened and closed, whose 5 s timer has fired, was closed again
C26_Witness ==
  /\ lastSignal = "close()"
  /\ NotOpenNoProcess
  /\ killTimers = 0
  /\ ~healthCheckInterval
  /\ \E c \in 1..Len(calls) : calls[c].state = "resolved"

(***************************************************************************)
(* The readable stream and the health monitoring.  Time advances by the    *)
(* period of the health interval; the interval fires when its period is    *)
(* over.                                                                   *)
(***************************************************************************)
HealthCheckPeriod == 10000
SilenceLimit == 60000

\* get readable: the stream is made, and its listeners are registered, when there is
\* none and the port is open
Readable ==
  /\ readable_ = "null"
  /\ isConnected
  /\ readable_' = "readable"
  /\ lastSignal' = "none"
  /\ UNCHANGED <<platform, isConnected, reconnectAttempts, process, others, calls,
                 listeners, healthVars, signalled, streamed, writeVars, killTimers,
                 outsideDriver>>

\* readable, onData: controller.enqueue(chunk); it throws, and is ignored, unless the
\* stream is readable
MutEnqueue(stream, chunks, chunk) == Append(chunks, chunk)
Enqueue(stream, chunks, chunk) ==
  IF stream = "readable" THEN Append(chunks, chunk) ELSE chunks

\* process.stdout.on("data"): the chunk is emitted as "data"; the onData of the
\* readable stream, if the stream was made, records the time and enqueues the chunk
Data ==
  /\ process.status = "running"
  /\ Len(signalled) < MaxChunks
  /\ signalled' = Append(signalled, Len(signalled) + 1)
  /\ IF readable_ # "null"
     THEN /\ sinceData' = 0
          /\ connectionHealthy' = TRUE
          /\ streamed' = Enqueue(readable_, streamed, Len(signalled) + 1)
     ELSE UNCHANGED <<sinceData, connectionHealthy, streamed>>
  /\ quiet' = 0
  /\ lastSignal' = "data"
  /\ UNCHANGED <<platform, isConnected, reconnectAttempts, process, others, calls,
                 listeners, healthCheckInterval, sinceCheck, readable_, writeVars,
                 killTimers, outsideDriver>>

\* Time passes, up to the moment at which the health interval fires next
Advance ==
  /\ sinceCheck < HealthCheckPeriod
  /\ sinceData' = Min(sinceData + HealthCheckPeriod, MaxSilence)
  /\ quiet' = Min(quiet + HealthCheckPeriod, MaxSilence)
  /\ sinceCheck' = IF healthCheckInterval THEN HealthCheckPeriod ELSE 0
  /\ lastSignal' = "none"
  /\ UNCHANGED <<platform, isConnected, reconnectAttempts, process, others, calls,
                 listeners, connectionHealthy, healthCheckInterval, streamVars,
                 writeVars, killTimers, outsideDriver>>

\* setupHealthMonitoring, the interval fires
HealthCheck ==
  /\ healthCheckInterval
  /\ sinceCheck = HealthCheckPeriod
  /\ sinceCheck' = 0
  /\ IF isConnected /\ sinceData > SilenceLimit
     THEN connectionHealthy' = FALSE /\ lastSignal' = "healthchange"
     ELSE UNCHANGED connectionHealthy /\ lastSignal' = "none"
  /\ UNCHANGED <<platform, isConnected, reconnectAttempts, process, others, calls,
                 listeners, healthCheckInterval, sinceData, quiet, streamVars,
                 writeVars, killTimers, outsideDriver>>

\* isHealthy()
isHealthy == isConnected /\ connectionHealthy

\* Data and health of a driver on linux whose process writes nothing on stderr
NextHealth ==
  \/ Open
  \/ \E c \in 1..Len(calls) : PortAvailable(c)
  \/ \E c \in 1..Len(calls) : SettleFires(c)
  \/ ProcessCloses
  \/ Close
  \/ Readable
  \/ Data
  \/ Advance
  \/ HealthCheck

SpecHealth == InitWrite /\ [][NextHealth]_vars

\* C23 as stated: every chunk that the process outputs while the driver is open is
\* added once to the "data" signals and once to the readable stream.
C23_EveryChunkOnSignalAndStream ==
  [][(lastSignal' = "data" /\ isConnected)
       => /\ signalled' = Append(signalled, Len(signalled) + 1)
          /\ streamed' = Append(streamed, Len(signalled) + 1)]_vars

\* C23, amended: every chunk that the process outputs is added once to the "data"
\* signals; it is added once, in the same step, to the readable stream if the stream
\* has been requested and is readable, and is not put on a stream otherwise; the
\* stream never holds a chunk twice or out of order, and only a chunk that arrives
\* changes either sequence.
C23_ChunkOnStreamWhenReadable ==
  /\ [][lastSignal' = "data"
          => /\ signalled' = Append(signalled, Len(signalled) + 1)
             /\ streamed' = IF readable_ = "readable"
                            THEN Append(streamed, Len(signalled) + 1)
                            ELSE streamed]_vars
  /\ [][lastSignal' # "data" => UNCHANGED <<signalled, streamed>>]_vars
  /\ [](Increasing(signalled) /\ Increasing(streamed)
          /\ Ids(streamed) \subseteq Ids(signalled))

\* A chunk arrived before the stream was requested and is not on it; a later chunk
\* has just been surfaced on both
C23_Witness ==
  /\ lastSignal = "data"
  /\ isConnected
  /\ readable_ = "readable"
  /\ streamed # << >>
  /\ Last(streamed) = Last(signalled)
  /\ Len(streamed) < Len(signalled)

\* C27: isHealthy() is true only if the driver is open and the port was opened or
\* data arrived within the silence limit; the limit is taken with the period of the
\* health interval added, the lag that a periodic check allows.
C27_HealthyOnlyWithRecentData ==
  isHealthy => (isConnected /\ quiet <= SilenceLimit + HealthCheckPeriod)

\* The health interval fires
HealthCheckStep == healthCheckInterval /\ sinceCheck = HealthCheckPeriod /\ sinceCheck' = 0

\* C28: while the driver is connected and has been silent for more than the silence
\* limit, the health interval is running, and when it fires it clears the health flag
\* and emits "healthchange".
C28_SilenceIsDemoted ==
  /\ []((isConnected /\ quiet > SilenceLimit) => healthCheckInterval)
  /\ [][(HealthCheckStep /\ isConnected /\ quiet > SilenceLimit)
          => (~connectionHealthy' /\ lastSignal' = "healthchange")]_vars

\* C29: a chunk of data that arrives on an open driver restarts the silence window
\* and makes the driver healthy, whether or not the readable stream was requested.
C29_DataKeepsHealthy ==
  [][(lastSignal' = "data" /\ isConnected) => (sinceData' = 0 /\ isHealthy')]_vars

(***************************************************************************)
(* src/config.ts: the live test of a port during discovery                 *)
(* (testPortForDataQuick and testPortForData share the "data" handler)     *)
(***************************************************************************)
\* How many "data" events one test is followed for
MaxTestChunks == 4

\* What the port delivers during a test: single readings of channels 41 and 42
\* (0.0, 23.5 and 47.0 degrees), one burst with a 0.0 reading of each of the
\* channels 42 to 4C, and bytes that are no HH-4208SD frame
ZeroDigits == <<"0", "0", "0">>
RestChannels == <<"2", "3", "4", "5", "6", "7", "8", "9", "A", "B", "c">>
ZeroBurst == Concat([i \in 1..Len(RestChannels) |->
                       ReadingFrame(RestChannels[i], "0", ZeroDigits) \o <<CR>>])
TestChunks ==
  { ReadingFrame("1", "0", ZeroDigits) \o <<CR>>,
    ReadingFrame("1", "0", <<"2", "3", "5">>) \o <<CR>>,
    ReadingFrame("1", "0", <<"4", "7", "0">>) \o <<CR>>,
    ReadingFrame("2", "1", ZeroDigits) \o <<CR>>,
    ReadingFrame("2", "1", <<"2", "3", "5">>) \o <<CR>>,
    ZeroBurst,
    <<"x", CR>> }

\* Array.from(discoveredChannels.values()).sort((a, b) => a.number - b.number)
RECURSIVE SortByNumber(_)
SortByNumber(entries) ==
  IF entries = {} THEN <<>>
  ELSE LET least == CHOOSE e \in entries : \A f \in entries : e.number <= f.number
       IN <<least>> \o SortByNumber(entries \ {least})
sortedChannels(discovered) == SortByNumber({discovered[h] : h \in DOMAIN discovered})

\* parsed.temperature !== undefined && !== null && !== 0, and
\* !discoveredChannels.has(channelId)
MutStoresReading(msg, discovered) == msg.temperature # 0
StoresReading(msg, discovered) ==
  msg.temperature # 0 /\ msg.channelHex \notin DOMAIN discovered

\* allChannelsSeen.size === 12
AllSeen(seen) == Cardinality(seen) = 12

\* The body of the loop over result.messages for one message; the loop returns
\* once the promise is resolved
OnMessage(st, msg) ==
  IF st.result # TestPending \/ ~msg.valid THEN st
  ELSE
    LET seen == st.seen \cup {msg.channelHex}
        discovered ==
          IF StoresReading(msg, st.discovered)
          THEN (msg.channelHex :>
                  [hex |-> msg.channelHex, number |-> msg.channelNumber,
                   temperature |-> msg.temperature]) @@ st.discovered
          ELSE st.discovered
    IN [seen |-> seen,
        discovered |-> discovered,
        result |-> IF AllSeen(seen)
                   THEN [kind |-> "resolved", channels |-> sortedChannels(discovered)]
                   ELSE TestPending,
        observed |-> Append(st.observed,
                            [hex |-> msg.channelHex,
                             temperature |-> msg.temperature])]

RECURSIVE OnMessages(_, _)
OnMessages(st, messages) ==
  IF messages = <<>> THEN st
  ELSE OnMessages(OnMessage(st, messages[1]), Tail(messages))

InitDiscovery ==
  /\ DiscoveryIdle
  /\ OutsideDiscoveryIdle

\* The time budget of a test (timeoutMs, or the 30 s of the full test), in steps
TestBudget == 2

\* function cleanup(): the timeout is cleared (it is pending exactly while the
\* promise is), and the port is closed if it is open
CleanedUp(port) == IF port = "open" THEN "closed" ELSE port

\* new SerialPort({path, baudRate}) opens the port on its own; the open completes
TestPortOpens ==
  /\ testPort = "opening"
  /\ testPort' = "open"
  /\ UNCHANGED <<testBuffer, dataReceived, discoveredChannels, allChannelsSeen,
                 testResult, testChunks, observed, testElapsed>>
  /\ UNCHANGED outsideDiscovery

\* Time passes; the timeout fires when the budget is reached
TestTick ==
  /\ testElapsed < TestBudget
  /\ testElapsed' = testElapsed + 1
  /\ UNCHANGED <<testBuffer, dataReceived, discoveredChannels, allChannelsSeen,
                 testResult, testChunks, observed, testPort>>
  /\ UNCHANGED outsideDiscovery

\* port.on("data", ...) on an open port; resolving a promise that is settled
\* changes nothing
TestData ==
  /\ testPort = "open"
  /\ testChunks < MaxTestChunks
  /\ \E chunk \in TestChunks :
       LET result == processSerialBuffer(testBuffer, chunk)
           st == OnMessages([seen |-> allChannelsSeen,
                             discovered |-> discoveredChannels,
                             result |-> TestPending,
                             observed |-> observed], result.messages)
       IN /\ dataReceived' = TRUE
          /\ testBuffer' = result.buffer
          /\ allChannelsSeen' = st.seen
          /\ discoveredChannels' = st.discovered
          /\ testResult' = IF testResult = TestPending THEN st.result ELSE testResult
          /\ observed' = IF testResult = TestPending THEN st.observed ELSE observed
          /\ testPort' = IF st.result # TestPending THEN CleanedUp(testPort)
                         ELSE testPort
  /\ testChunks' = testChunks + 1
  /\ UNCHANGED testElapsed
  /\ UNCHANGED outsideDiscovery

\* The body of the timeout callback: reject when no data arrived or no channel
\* was stored, resolve with the stored channels otherwise
MutTimeoutOutcome(gotData, discovered) ==
  IF ~gotData THEN [kind |-> "rejected", error |-> "No data received"]
  ELSE [kind |-> "rejected", error |-> "format not recognized"]
TimeoutOutcome(gotData, discovered) ==
  IF ~gotData THEN [kind |-> "rejected", error |-> "No data received"]
  ELSE IF Cardinality(DOMAIN discovered) = 0
  THEN [kind |-> "rejected", error |-> "format not recognized"]
  ELSE [kind |-> "resolved", channels |-> sortedChannels(discovered)]

\* The timeout of the test fires
TestTimeout ==
  /\ testResult = TestPending
  /\ testElapsed = TestBudget
  /\ testPort' = CleanedUp(testPort)
  /\ testResult' = TimeoutOutcome(dataReceived, discoveredChannels)
  /\ UNCHANGED <<testBuffer, dataReceived, discoveredChannels, allChannelsSeen,
                 testChunks, observed, testElapsed>>
  /\ UNCHANGED outsideDiscovery

\* port.on("error", ...): the open fails, or the open port fails; an emitter has
\* no further events once the port is closed
TestPortError ==
  /\ testPort # "closed"
  /\ testPort' = "closed"
  /\ testResult' = IF testResult = TestPending
                   THEN [kind |-> "rejected", error |-> "Cannot open"]
                   ELSE testResult
  /\ UNCHANGED <<testBuffer, dataReceived, discoveredChannels, allChannelsSeen,
                 testChunks, observed, testElapsed>>
  /\ UNCHANGED outsideDiscovery

NextDiscovery ==
  TestPortOpens \/ TestTick \/ TestData \/ TestTimeout \/ TestPortError

SpecDiscovery == InitDiscovery /\ [][NextDiscovery]_vars

\* The readings observed for one channel code, in order, and the non-zero ones
TemperaturesOf(hex) ==
  LET of == SelectSeq(observed, LAMBDA r : r.hex = hex)
  IN [i \in 1..Len(of) |-> of[i].temperature]
NonZero(temps) == SelectSeq(temps, LAMBDA t : t # 0)

\* What the claim expects of a collection of entries, given the readings observed
FirstNonZeroOnly(entries) ==
  /\ \A e \in entries :
       /\ NonZero(TemperaturesOf(e.hex)) # <<>>
       /\ e.temperature = NonZero(TemperaturesOf(e.hex))[1]
       /\ e.number = CHANNEL_MAP[e.hex]
  /\ \A hex \in VALID_CHANNEL_IDS :
       NonZero(TemperaturesOf(hex)) # <<>> => \E e \in entries : e.hex = hex
  /\ \A e, f \in entries : e.hex = f.hex => e = f

Range(seq) == {seq[i] : i \in 1..Len(seq)}

\* C30: during a discovery live test the result holds, for each channel code, the
\* first non-zero temperature observed for it and nothing else (a reading of 0
\* neither enters nor replaces an entry, a later reading never replaces the first
\* non-zero one), and a test is over as soon as 12 channel codes have been
\* observed, those with only zero readings included.
C30_FirstNonZeroPerChannel ==
  /\ testResult = TestPending =>
       /\ FirstNonZeroOnly({discoveredChannels[h] : h \in DOMAIN discoveredChannels})
       /\ allChannelsSeen = {observed[i].hex : i \in 1..Len(observed)}
  /\ testResult.kind = "resolved" =>
       /\ FirstNonZeroOnly(Range(testResult.channels))
       /\ Len(testResult.channels) = Cardinality(Range(testResult.channels))
  /\ Cardinality({observed[i].hex : i \in 1..Len(observed)}) = 12
       => testResult.kind = "resolved"

\* A test ended early on 12 channels, eleven of them seen with zero readings only, in
\* which channel 41 read 0.0, then 23.5, then 47.0
C30_Witness ==
  /\ testResult.kind = "resolved"
  /\ Cardinality(allChannelsSeen) = 12
  /\ TemperaturesOf(<<"4", "1">>) = <<0, 235, 470>>
  /\ NonZero(TemperaturesOf(<<"4", "C">>)) = <<>>
  /\ TemperaturesOf(<<"4", "C">>) # <<>>

\* A step in which the time budget elapses on a pending test: the promise settles
\* without a "data" event and without a port error
TimedOut ==
  /\ testResult = TestPending /\ testResult' # TestPending
  /\ testChunks' = testChunks
  /\ ~(testResult'.kind = "rejected" /\ testResult'.error = "Cannot open")
AnyNonZero == \E i \in 1..Len(observed) : observed[i].temperature # 0
EarlySuccess ==
  /\ [](Cardinality({observed[i].hex : i \in 1..Len(observed)}) = 12
         => testResult.kind = "resolved")
  /\ [][(testResult = TestPending /\ testResult' # TestPending
          /\ testChunks' # testChunks)
         => (testResult'.kind = "resolved" /\ Cardinality(allChannelsSeen') = 12)]_vars

\* C31 as stated: a live test succeeds as soon as all 12 channel codes have been
\* observed, and otherwise fails when the time budget elapses, with "no data" when
\* no byte was received and "not the expected protocol" when bytes were received.
C31_TimeoutAlwaysFails ==
  /\ EarlySuccess
  /\ [][TimedOut =>
          /\ testResult'.kind = "rejected"
          /\ testResult'.error = IF dataReceived THEN "format not recognized"
                                 ELSE "No data received"]_vars

\* C31 as the code has it: a live test succeeds as soon as all 12 channel codes have
\* been observed; when the time budget elapses first it fails with "no data" if no
\* byte was received, fails with "not the expected protocol" if bytes were received
\* but no non-zero reading, and succeeds with the channels found so far otherwise.
C31_TimeoutFailsWithoutChannels ==
  /\ EarlySuccess
  /\ [][TimedOut =>
          IF ~dataReceived
          THEN testResult' = [kind |-> "rejected", error |-> "No data received"]
          ELSE IF ~AnyNonZero
          THEN testResult' = [kind |-> "rejected", error |-> "format not recognized"]
          ELSE /\ testResult'.kind = "resolved"
               /\ testResult'.channels # <<>>]_vars

\* The time budget elapsed on a test that had seen a non-zero reading but not all
\* 12 channels, and the test succeeded
C31_Witness ==
  /\ testResult.kind = "resolved"
  /\ Cardinality(allChannelsSeen) < 12
  /\ AnyNonZero

\* C32: a live test settles exactly once, and once it has settled the port it
\* opened is closed and further data on it changes nothing: the outcome of a
\* settled test never changes, and no settled test has its port open.
C32_SettledOncePortClosed ==
  /\ [][testResult # TestPending => testResult' = testResult]_vars
  /\ [](testResult # TestPending => testPort # "open")

(***************************************************************************)
(* src/config.ts: scorePort and autoDetectDataloggers                      *)
(***************************************************************************)
\* How many ports SerialPort.list() returns at most
MaxPorts == 3

\* vendorId?.toLowerCase() of a hexadecimal vendor id
toLowerCaseChar(c) ==
  CASE c = "A" -> "a" [] c = "B" -> "b" [] c = "C" -> "c" [] c = "D" -> "d"
    [] c = "E" -> "e" [] c = "F" -> "f" [] OTHER -> c
toLowerCase(str) == [i \in 1..Len(str) |-> toLowerCaseChar(str[i])]

\* The ports of the machine. Of a path and a manufacturer string only the words
\* that scorePort looks for in their lower-case form are kept.
PortInfos ==
  { [path |-> "/dev/ttyUSB0", vendorId |-> <<"0", "4", "0", "3">>,
     pathHas |-> {"ttyusb"}, manufacturerHas |-> {"ftdi"}],
    [path |-> "/dev/ttyUSB1", vendorId |-> <<"1", "0", "C", "4">>,
     pathHas |-> {"ttyusb"}, manufacturerHas |-> {"silicon labs"}],
    [path |-> "/dev/ttyACM0", vendorId |-> <<"1", "0", "c", "4">>,
     pathHas |-> {"ttyacm"}, manufacturerHas |-> {"silicon labs"}],
    [path |-> "/dev/cu.usbserial-ftdi", vendorId |-> <<>>,
     pathHas |-> {"usbserial", "ftdi"}, manufacturerHas |-> {"ftdi"}],
    [path |-> "/dev/cu.Bluetooth-Incoming-Port", vendorId |-> <<>>,
     pathHas |-> {"bluetooth"}, manufacturerHas |-> {}] }

Max(a, b) == IF a > b THEN a ELSE b

\* function scorePort(port)
scorePort(port) ==
  LET vid == toLowerCase(port.vendorId)
      has(word) == word \in port.pathHas
      made(word) == word \in port.manufacturerHas
      chip == IF vid = <<"0", "4", "0", "3">> THEN 95
              ELSE IF vid = <<"1", "0", "c", "4">> THEN 70 ELSE 0 - 30
      usb == IF has("usbserial") THEN 10 ELSE IF has("usbmodem") THEN 5 ELSE 0
      ftdi == IF has("ftdi") THEN 10 ELSE 0
      tty == IF has("ttyusb") THEN 5 ELSE IF has("ttyacm") THEN 5 ELSE 0
      maker == IF made("ftdi") THEN 15
               ELSE IF made("silicon labs") THEN 10
               ELSE IF made("prolific") THEN 5 ELSE 0
      bluetooth == IF has("bluetooth") THEN 0 - 50 ELSE 0
      debug == IF has("debug") THEN 0 - 30 ELSE 0
      builtIn == IF platform = "darwin" /\ (has("bluetooth") \/ has("debug"))
                 THEN 0 - 20 ELSE 0
  IN [port |-> port,
      score |-> Max(0, chip + usb + ftdi + tty + maker + bluetooth + debug + builtIn)]

\* scoredPorts.sort((a, b) => b.score - a.score): descending, and stable
RECURSIVE SortByScore(_)
SortByScore(sps) ==
  IF sps = <<>> THEN <<>>
  ELSE LET best == CHOOSE i \in 1..Len(sps) :
                     /\ \A j \in 1..Len(sps) : sps[j].score <= sps[i].score
                     /\ \A j \in 1..(i - 1) : sps[j].score < sps[i].score
       IN <<sps[best]>> \o
          SortByScore(SubSeq(sps, 1, best - 1) \o SubSeq(sps, best + 1, Len(sps)))

\* ports.map(scorePort).filter(sp => sp.score > 0)
IsLikely(sp) == sp.score > 0

\* scoredPorts.filter(sp => sp.score >= 60)
MutIsCandidate(sp) == sp.score > 0
IsCandidate(sp) == sp.score >= 60
candidatePorts == SelectSeq(scoredPorts, IsCandidate)

\* result.channels.length > 0
Yielded(channels) == Len(channels) > 0

\* What a live test of a candidate can end in: a rejection, no channel at all (all
\* 12 codes seen with zero readings), or some channels
OneChannel == <<[hex |-> <<"4", "1">>, number |-> 1, temperature |-> 235]>>
TestOutcomes ==
  { [kind |-> "rejected", error |-> "No data received"],
    [kind |-> "resolved", channels |-> <<>>],
    [kind |-> "resolved", channels |-> OneChannel] }

PortLists ==
  {ps \in SeqsUpTo(PortInfos, MaxPorts) :
     \A i, j \in 1..Len(ps) : ps[i] = ps[j] => i = j}

InitDetect ==
  /\ detectPorts \in PortLists
  /\ scoredPorts = <<>>
  /\ validDataloggers = <<>>
  /\ detectIndex = 0
  /\ detectState = "listing"
  /\ tested = <<>>
  /\ OutsideDetectIdle

\* From SerialPort.list() to the start of the loop over candidatePorts
ScorePorts ==
  /\ detectState = "listing"
  /\ LET scored == SelectSeq([i \in 1..Len(detectPorts) |-> scorePort(detectPorts[i])],
                             IsLikely)
     IN IF Len(detectPorts) = 0 \/ Len(scored) = 0
        THEN /\ detectState' = "failed"
             /\ UNCHANGED <<scoredPorts, detectIndex>>
        ELSE /\ scoredPorts' = SortByScore(scored)
             /\ detectIndex' = 1
             /\ detectState' = "testing"
  /\ UNCHANGED <<detectPorts, validDataloggers, tested>>
  /\ UNCHANGED outsideDetect

\* One turn of the loop: await testPortForDataQuick(path, 8000, true)
TestCandidate ==
  /\ detectState = "testing"
  /\ detectIndex <= Len(candidatePorts)
  /\ \E outcome \in TestOutcomes :
       LET scoredPort == candidatePorts[detectIndex] IN
       /\ validDataloggers' =
            IF outcome.kind = "resolved" /\ Yielded(outcome.channels)
            THEN Append(validDataloggers,
                        [path |-> scoredPort.port.path, channels |-> outcome.channels,
                         score |-> scoredPort.score])
            ELSE validDataloggers
       /\ tested' = Append(tested, [path |-> scoredPort.port.path, outcome |-> outcome])
  /\ detectIndex' = detectIndex + 1
  /\ UNCHANGED <<detectPorts, scoredPorts, detectState>>
  /\ UNCHANGED outsideDetect

\* return validDataloggers
ReturnDataloggers ==
  /\ detectState = "testing"
  /\ detectIndex > Len(candidatePorts)
  /\ detectState' = "returned"
  /\ UNCHANGED <<detectPorts, scoredPorts, validDataloggers, detectIndex, tested>>
  /\ UNCHANGED outsideDetect

NextDetect == ScorePorts \/ TestCandidate \/ ReturnDataloggers

SpecDetect == InitDetect /\ [][NextDetect]_vars

\* The score of a listed port, by its path
ScoreOfPath(path) ==
  LET i == CHOOSE k \in 1..Len(detectPorts) : detectPorts[k].path = path
  IN scorePort(detectPorts[i]).score
ListedPaths == {detectPorts[i].path : i \in 1..Len(detectPorts)}
TestedPaths == {tested[i].path : i \in 1..Len(tested)}
FoundChannels(outcome) == outcome.kind = "resolved" /\ outcome.channels # <<>>
Found == SelectSeq(tested, LAMBDA t : FoundChannels(t.outcome))

\* C33: autoDetectDataloggers live-tests only listed ports whose score is at least
\* 60 (so none with a non-positive score), each once, one after the other in
\* descending score order; when it returns it has tested every such port, whatever
\* the earlier tests ended in, and returns exactly the tested ports whose test
\* yielded at least one channel; a failed live test never makes the detection fail.
C33_TestsHighScoresReturnsFound ==
  /\ \A i \in 1..Len(tested) :
       /\ tested[i].path \in ListedPaths
       /\ ScoreOfPath(tested[i].path) >= 60
       /\ \A j \in 1..Len(tested) :
            /\ tested[i].path = tested[j].path => i = j
            /\ i < j => ScoreOfPath(tested[i].path) >= ScoreOfPath(tested[j].path)
  /\ \A i \in 1..Len(scoredPorts) : scoredPorts[i].score > 0
  /\ Len(validDataloggers) = Len(Found)
  /\ \A i \in 1..Len(Found) :
       /\ validDataloggers[i].path = Found[i].path
       /\ validDataloggers[i].channels = Found[i].outcome.channels
  /\ detectState = "returned" =>
       TestedPaths = {p \in ListedPaths : ScoreOfPath(p) >= 60}
  /\ detectState = "failed" => tested = <<>>

\* A detection returned after three ports were listed: one scored below 60 and was
\* not tested, the first test failed, and the second yielded a channel
C33_Witness ==
  /\ detectState = "returned"
  /\ Len(detectPorts) = 3
  /\ Len(tested) = 2
  /\ \E p \in ListedPaths : ScoreOfPath(p) > 0 /\ ScoreOfPath(p) < 60
  /\ tested[1].outcome.kind = "rejected"
  /\ FoundChannels(tested[2].outcome)
  /\ Len(validDataloggers) = 1

(***************************************************************************)
(* src/server.ts: GET /api/readings                                        *)
(***************************************************************************)
\* getChannelNumber: channelMap[channelHex] || 0
getChannelNumber(channelHex) ==
  IF channelHex \in DOMAIN CHANNEL_MAP THEN CHANNEL_MAP[channelHex] ELSE 0

\* The reading pushed for one [channelHex, data] of Object.entries(channelData), at
\* time t; temperature is "null" when the channel is not connected
ReadingOf(channelHex, data, t) ==
  LET channelNum == getChannelNumber(channelHex)
      connected == isChannelConnected(data.lastUpdate, t)
  IN [id |-> channelNum,
      name |-> data.config.name,
      type |-> data.config.type,
      temperature |-> IF connected THEN data.temperature ELSE "null",
      connected |-> connected,
      lastUpdate |-> data.lastUpdate,
      ageSeconds |-> t - data.lastUpdate,
      detected |-> data.detected,
      firstSeen |-> data.firstSeen,
      dataCount |-> data.dataCount,
      channel |-> channelNum]

\* The readings of the snapshot, by the entry each was made from (the handler
\* orders them by their channel field)
Readings == [key \in DOMAIN channelData |-> ReadingOf(key, channelData[key], now)]

\* The channel code of an entry's key, and the datalogger it belongs to
CodeOfKey(key) == SubSeq(key, Len(key) - 1, Len(key))

\* C34: the readings snapshot has one reading per channel entry, each reporting in id
\* and channel the channel number 1..12 of its entry's channel code, so that two
\* entries of one datalogger never report the same channel number.
C34_ReadingsReportChannelNumber ==
  /\ \A key \in DOMAIN channelData :
       /\ Readings[key].channel = CHANNEL_MAP[CodeOfKey(key)]
       /\ Readings[key].id = Readings[key].channel
       /\ Readings[key].channel \in 1..12
  /\ \A k1, k2 \in DOMAIN channelData :
       (k1 # k2 /\ channelData[k1].dataloggerID = channelData[k2].dataloggerID)
         => Readings[k1].channel # Readings[k2].channel

(***************************************************************************)
(* part_001: close() while an open() is retrying                           *)
(***************************************************************************)
\* Opening, failing, retrying and closing a driver on linux
NextCloseRetry ==
  \/ Open
  \/ \E c \in 1..Len(calls) : PortAvailable(c)
  \/ \E c \in 1..Len(calls) : RetryFires(c)
  \/ \E c \in 1..Len(calls) : SettleFires(c)
  \/ \E raw \in RawDiagnostics : Stderr(raw)
  \/ ProcessCloses
  \/ OtherProcessCloses
  \/ Close
  \/ KillTimerFires

SpecCloseRetry == InitWrite /\ [][NextCloseRetry]_vars

\* C35: after close() has returned, and until open() is called again, the driver is
\* not open and has no backing process; in particular a retry that an earlier open()
\* scheduled does not reopen the port.
C35_ClosedStaysClosed ==
  closeReturned => (~isConnected /\ process.status = "null")

\* C36: the forced kill that close() schedules only ever hits the process that this
\* close() was terminating. close() forgets that process at once, so whatever process
\* the driver holds was started by a later open(): none of them is ever killed by a
\* timer of close().
C36_KillTimerSparesLaterProcess == ~process.killed

\* The processes started by the driver that are still running
LiveProcesses == others + (IF process.status = "running" THEN 1 ELSE 0)

\* C37: in every reachable state the driver has at most one live backing process:
\* no retry and no further open() starts a process while one that the driver
\* started earlier is still running.
C37_AtMostOneLiveProcess == LiveProcesses <= 1

\* C38: every reading accepted by parseHH4208SDMessage has a temperature between
\* -99.9 and 99.9 in steps of 0.1 (in tenths: an integer in -999..999), and no frame
\* is rejected by the range check against [-200, 2000].
C38_AcceptedWithinThreeDigits ==
  pstage = "parsed" =>
    /\ parsed.valid => parsed.temperature \in (0 - 999)..999
    /\ ~parsed.valid => parsed.error # "Invalid temperature value"

\* A frame with polarity 1 and the digits 999 was accepted as -99.9
C38_Witness ==
  /\ pstage = "parsed"
  /\ parsed.valid
  /\ parsed.temperature = 0 - 999

\* C39: every open() call starts with a fresh retry budget: the attempt counter is 0
\* whenever a new open() begins, however the earlier open() calls ended.
C39_FreshBudgetPerOpen ==
  [][lastSignal' = "call" => reconnectAttempts' = 0]_vars

\* No open() call is under way
NoOpenUnderWay ==
  \A c \in 1..Len(calls) : Settled(calls[c]) \/ calls[c].state = "gone"

\* C40: closing an open driver with close() never results in an "error" signal:
\* once close() has returned, with no open() under way and until open() is called
\* again, no "error" is emitted, in particular not for the termination of the
\* process that close() signalled.
C40_CloseNeverSignalsError ==
  [][(closeReturned /\ NoOpenUnderWay) => lastSignal' # "error"]_vars

====
